---- MODULE Spec2Model ----
(***************************************************************************)
(* Model of the LSM engine of aixiasang/mini_lsm (package inner): the      *)
(* write path with WAL rotation, the compaction worker, recovery at open   *)
(* and the read path, over an explicit model of the WAL and SST            *)
(* directories.                                                            *)
(*                                                                         *)
(* One caller thread issues NewLsmTree / Put / Delete / Close; the         *)
(* compaction worker is a second thread whose doCompact is split at its    *)
(* statements.  Get is a pure function of the engine state, so a property  *)
(* stated over GetResult in every reachable state is a property of a Get   *)
(* issued between any two steps of the caller and of the worker.           *)
(*                                                                         *)
(* Spec is the engine without I/O errors, FairSpec adds the fair           *)
(* scheduling of the worker.  WriteFaultSpec, CompactFaultSpec and         *)
(* CloseFaultSpec add, each for one operation, the calls in which an I/O   *)
(* step returns an error or the key is nil.  NameSpec applies the file     *)
(* name tests of the recovery to the names of directory entries.           *)
(*                                                                         *)
(* SstSpec is one SST file under SSTWriter (Add, Flush, a second writer    *)
(* on the same path), a footer overwritten on disk, and NewSSTReader with  *)
(* Get and the iterator, on the bytes of the file.  RecSpec is one WAL     *)
(* record under Record.Encode, the inversion of one bit, and the two       *)
(* decoders DecodeRecord and DecodeStream, with the crc32 computed.        *)
(*                                                                         *)
(* CrashSpec is Spec with the process stopping while the worker compacts.  *)
(* MemSpec is one BTreeMemTable under Put, Get, Delete and the two         *)
(* traversals.  RollSpec is one SSTWriter under Add and calls of           *)
(* mustRotateDataBlock made between the Adds.                              *)
(***************************************************************************)
EXTENDS Integers, Sequences, FiniteSets, TLC

\* ------------------------------------------------------------------ bounds
MaxKey == 2        \* keys are the one-byte slices <<1>> .. <<MaxKey>>
MaxVal == 2        \* put values are the one-byte slices <<1>> .. <<MaxVal>>
MaxOps == 3        \* Put/Delete calls in one behaviour
MaxOpens == 2      \* re-opens (NewLsmTree after Close) in one behaviour
WalSize == 14      \* conf.WalSize, in bytes: a Delete record of a one-byte key
                   \* fills the WAL, any further record exceeds it
MaxFaults == 1     \* failing calls (I/O errors, nil keys) in one behaviour
MaxNameLen == 5    \* symbols in the name of a directory entry

\* ------------------------------------------------------- program constants
LevelSize == 5             \* conf.LevelSize
CompactChCap == 10         \* make(chan *immutable, 10)
BlockSize == 1048576       \* conf.BlockSize (entries per data block)
RecordHeaderLen == 9       \* 1 byte type + 4 bytes key length + 4 bytes value length
RecordCrcLen == 4          \* crc32
EntryHeaderLen == 8        \* u32 key length + u32 value length
IndexFixedLen == 24        \* two u32 key lengths + i64 offset + i64 length
FilterFrameLen == 12       \* i64 block length + u32 filter length
FilterSaveLen == 128       \* bytes of a saved (m = 1024 bits) bloom filter
FooterLen == 12            \* three u32 section lengths

\* --------------------------------------------------------------- byte slices
\* A Go []byte: nil and the empty non-nil slice are different values.
Bytes(s) == [nil |-> FALSE, b |-> s]
NilBytes == [nil |-> TRUE, b |-> <<>>]
BLen(x) == Len(x.b)

Keys == {Bytes(<<i>>) : i \in 1..MaxKey}
PutVals == {Bytes(<<i>>) : i \in 1..MaxVal}

\* BTreeMemTable.Delete on a key that is present
MemDelete(m, k) == [x \in (DOMAIN m) \ {k} |-> m[x]]

\* as Ascend, except that what the visitor returns is ignored
AscendToEnd(entries, stopAfter) == entries

\* btree.Ascend with a visitor that returns false in its stopAfter-th call
Ascend(entries, stopAfter) ==
    SubSeq(entries, 1, IF stopAfter < Len(entries) THEN stopAfter ELSE Len(entries))

\* bytes.Compare(a, b) < 0
RECURSIVE SeqLess(_, _)
SeqLess(a, b) ==
    IF b = <<>> THEN FALSE
    ELSE IF a = <<>> THEN TRUE
    ELSE IF Head(a) # Head(b) THEN Head(a) < Head(b)
    ELSE SeqLess(Tail(a), Tail(b))

KeyLess(a, b) == SeqLess(a.b, b.b)

\* append([]byte{}, v...): a fresh non-nil copy
CopyBytes(v) == Bytes(v.b)

\* ------------------------------------------------------------------ memtable
\* BTreeMemTable: a mapping key -> value, traversed in ascending key order.
NewMemTable == <<>>

\* as MemPut, except that an item that is in the tree is not replaced
MemPutKeepFirst(m, k, v) ==
    IF k \in DOMAIN m THEN m ELSE [x \in (DOMAIN m) \cup {k} |-> IF x = k THEN CopyBytes(v) ELSE m[x]]

MemPut(m, k, v) ==
    [x \in (DOMAIN m) \cup {k} |-> IF x = k THEN CopyBytes(v) ELSE m[x]]

\* BTreeMemTable.Get: (value copy, nil) or (nil, ErrKeyNotFound)
MemGet(m, k) ==
    IF k \in DOMAIN m
    THEN [value |-> CopyBytes(m[k]), err |-> "ok"]
    ELSE [value |-> NilBytes, err |-> "key-not-found"]

MinKeyOf(S) == CHOOSE k \in S : \A o \in S : o = k \/ KeyLess(k, o)

\* ForEachUnSafe with a visitor that collects: entries in ascending key order
RECURSIVE MemEntriesOf(_, _)
MemEntriesOf(m, S) ==
    IF S = {} THEN <<>>
    ELSE LET k == MinKeyOf(S)
         IN  <<[key |-> k, value |-> m[k]]>> \o MemEntriesOf(m, S \ {k})

ForEachUnSafe(m) == MemEntriesOf(m, DOMAIN m)

\* ----------------------------------------------------------------------- WAL
\* A WAL file wal-<id>.log is the sequence of the records appended to it;
\* walDir maps the ids of the files present in the WAL directory to them.

\* NewRecord: a nil value makes a Delete record
NewRecord(key, value) ==
    IF value.nil
    THEN [type |-> "Delete", key |-> key, value |-> NilBytes]
    ELSE [type |-> "Put", key |-> key, value |-> value]

\* len(Record.Encode()): type, key length, value length, key, value, crc
EncodedLen(r) == RecordHeaderLen + BLen(r.key) + BLen(r.value) + RecordCrcLen

\* wal.NewWal(conf, id): create the file or open it for append
NewWal(dir, id) ==
    IF id \in DOMAIN dir THEN dir
    ELSE [x \in (DOMAIN dir) \cup {id} |-> IF x = id THEN <<>> ELSE dir[x]]

\* Wal.Write(key, value): append one encoded record
WalWrite(dir, id, key, value) ==
    IF id \in DOMAIN dir
    THEN [dir EXCEPT ![id] = Append(@, NewRecord(key, value))]
    ELSE dir

RECURSIVE SumEncodedLen(_)
SumEncodedLen(recs) ==
    IF recs = <<>> THEN 0 ELSE EncodedLen(Head(recs)) + SumEncodedLen(Tail(recs))

\* Wal.Size(): current byte length of the file
WalFileSize(dir, id) == IF id \in DOMAIN dir THEN SumEncodedLen(dir[id]) ELSE 0

\* Wal.ReadAll(memtable): put every decoded record; a decoded value is a
\* freshly made slice of value_len bytes (a Delete decodes as an empty value)
RECURSIVE ReadAllInto(_, _)
ReadAllInto(recs, m) ==
    IF recs = <<>> THEN m
    ELSE ReadAllInto(Tail(recs),
             MemPut(m, Bytes(Head(recs).key.b), Bytes(Head(recs).value.b)))

ReadAll(dir, id) == ReadAllInto(dir[id], NewMemTable)

\* Wal.Delete(): remove the file from disk
WalDelete(dir, id) == [x \in (DOMAIN dir) \ {id} |-> dir[x]]

\* ----------------------------------------------------------------- SST file
\* An SST file is the sequence of the segments appended to it, one segment
\* (data section, index section, filter section, footer) per SSTWriter.Flush.
\* A segment is given by the entries of its data section and by the number of
\* its sections that reached the file (all four unless a Write of Flush
\* failed); sstDir maps the <<level, seq>> of the files present in the SST
\* directory to them.
SectionCount == 4

Segment(es, n) == [entries |-> es, sections |-> n]

RECURSIVE DataLen(_)
DataLen(es) ==
    IF es = <<>> THEN 0
    ELSE EntryHeaderLen + BLen(Head(es).key) + BLen(Head(es).value) + DataLen(Tail(es))

\* number of data blocks: a block is rolled when it holds more than BlockSize
\* entries, and Flush rolls the last non-empty block
BlockCount(es) ==
    IF es = <<>> THEN 0
    ELSE (Len(es) + BlockSize) \div (BlockSize + 1)

\* one index entry per block; mustRotateDataBlock builds the entry after
\* Block.Flush has cleared the block, so FirstKey() and LastKey() are nil and
\* the encoded entry holds no key bytes
IndexLen(es) == BlockCount(es) * (IndexFixedLen + BLen(NilBytes) + BLen(NilBytes))

FilterLen(es) == BlockCount(es) * (FilterFrameLen + FilterSaveLen)

\* Flush: the byte lengths of the four Writes to the file, in order
SectionLens(es) == <<DataLen(es), IndexLen(es), FilterLen(es), FooterLen>>

RECURSIVE SumFirst(_, _)
SumFirst(lens, n) == IF n = 0 THEN 0 ELSE lens[n] + SumFirst(lens, n - 1)

SegmentLen(seg) == SumFirst(SectionLens(seg.entries), seg.sections)

RECURSIVE FileSize(_)
FileSize(file) ==
    IF file = <<>> THEN 0 ELSE SegmentLen(Head(file)) + FileSize(Tail(file))

\* getSSTFilePath(level, seq): <dataDir>/<sstDir>/<level>_<seq>.sst
getSSTFilePath(level, s) == <<level, s>>

\* a writer that truncates the file it opens
NewSSTWriterTruncating(dir, path) == <<>>

\* os.OpenFile(filename, O_CREATE|O_WRONLY|O_APPEND): the file as the writer
\* finds it; an existing file keeps its content
NewSSTWriter(dir, path) == IF path \in DOMAIN dir THEN dir[path] ELSE <<>>

\* writeMemTableToSST: open the writer, Add every entry of the memtable in
\* ForEachUnSafe order (Add only writes to in-memory buffers), Flush (one
\* Write per section, appended to the file), Close
writeMemTableToSST(dir, imm, path) ==
    LET old == NewSSTWriter(dir, path)
        new == Append(old, Segment(ForEachUnSafe(imm.index), SectionCount))
    IN  [x \in (DOMAIN dir) \cup {path} |-> IF x = path THEN new ELSE dir[x]]

\* writeMemTableToSST when the Write number n + 1 of Flush returns an error:
\* the file is created by the writer and holds the n sections written before
\* (a Write that fails is taken to leave no byte of its section)
writeMemTableToSSTFailing(dir, imm, path, n) ==
    LET old == NewSSTWriter(dir, path)
        new == IF n = 0 THEN old
               ELSE Append(old, Segment(ForEachUnSafe(imm.index), n))
    IN  [x \in (DOMAIN dir) \cup {path} |-> IF x = path THEN new ELSE dir[x]]

\* loadFooter: the last 12 bytes of the file are the footer of the last
\* segment (the uint32 sum does not wrap at the file sizes of this model);
\* when the last segment has no footer the 12 bytes are the tail of a data,
\* index or filter section, which do not add up to the file size
FooterOk(file) ==
    LET es == file[Len(file)].entries
    IN  /\ file[Len(file)].sections = SectionCount
        /\ DataLen(es) + IndexLen(es) + FilterLen(es) + FooterLen = FileSize(file)

\* loadDataBlock: entries are parsed from a bytes.Reader over the data
\* section; Read into the zero-length value slice of the entry that ends the
\* section finds the reader exhausted and returns io.EOF
DataBlockErr(es) == es # <<>> /\ BLen(es[Len(es)].value) = 0

\* the parsed kv list: every key and value is a freshly made slice
KvListOf(es) ==
    [i \in 1..Len(es) |-> [key |-> Bytes(es[i].key.b), value |-> Bytes(es[i].value.b)]]

\* NewSSTReader(conf, filePath)
NewSSTReader(dir, path) ==
    IF path \notin DOMAIN dir THEN [err |-> "not-exist", kvList |-> <<>>]
    ELSE IF FileSize(dir[path]) < FooterLen
         THEN [err |-> "invalid-sst-format", kvList |-> <<>>]
    ELSE IF ~FooterOk(dir[path])
         THEN [err |-> "invalid-sst-format", kvList |-> <<>>]
    ELSE IF DataBlockErr(dir[path][1].entries)
         THEN [err |-> "EOF", kvList |-> <<>>]
    ELSE [err |-> "ok", kvList |-> KvListOf(dir[path][1].entries)]

\* sst.NewNode(conf, filename, level, seq, reader)
NewNode(level, s, reader) == [level |-> level, seq |-> s, kvList |-> reader.kvList]

\* Node.Get: linear scan of the kv list
RECURSIVE NodeGetFrom(_, _, _)
NodeGetFrom(kvs, i, key) ==
    IF i > Len(kvs) THEN [value |-> NilBytes, err |-> "key-not-found"]
    ELSE IF kvs[i].key.b = key.b
         THEN IF kvs[i].value.nil
              THEN [value |-> NilBytes, err |-> "value-nil"]
              ELSE [value |-> kvs[i].value, err |-> "ok"]
    ELSE NodeGetFrom(kvs, i + 1, key)

NodeGet(n, key) == NodeGetFrom(n.kvList, 1, key)

\* ------------------------------------------- SST writer and reader, byte by byte
\* The writer and the reader used on their own, for any conf.BlockSize.  The
\* bytes of a file are given as the parts written to it: a part is the byte
\* string of one Write, kept as the entries, index entries, filter entries or
\* footer lengths it encodes.
MaxSstKey == 3      \* keys handed to Add: the empty slice and <<1>> .. <<MaxSstKey>>
MaxEntries == 4     \* Add calls on one writer
MaxBlockSize == 2   \* conf.BlockSize of the writer is one of 0 .. MaxBlockSize

SstKeys == {Bytes(<<>>)} \cup {Bytes(<<k>>) : k \in 1..MaxSstKey}
SstVals == {Bytes(<<>>), Bytes(<<1>>)}

\* A uint32 or int64 is the pair of its low 16 bits and of what is above them,
\* so that 32-bit sums wrap where the code's do.
Wide(n) == [hi |-> n \div 65536, lo |-> n % 65536]
WideAdd(a, b) ==
    [hi |-> a.hi + b.hi + ((a.lo + b.lo) \div 65536), lo |-> (a.lo + b.lo) % 65536]
Uint32(w) == [hi |-> w.hi % 65536, lo |-> w.lo]
\* Index.Encode: two u32 key lengths, the keys, i64 offset, i64 length
RECURSIVE IndexBytes(_)
IndexBytes(index) ==
    IF index = <<>> THEN 0
    ELSE IndexFixedLen + BLen(Head(index).StartKey) + BLen(Head(index).EndKey)
         + IndexBytes(Tail(index))

\* the bytes of a part; Block.FilterAdd writes an i64 block length, a u32
\* filter length and the saved filter
PartLen(p) ==
    CASE p.kind = "data" -> DataLen(p.body)
      [] p.kind = "index" -> IndexBytes(p.body)
      [] p.kind = "filter" -> Len(p.body) * (FilterFrameLen + FilterSaveLen)
      [] p.kind = "footer" -> FooterLen

RECURSIVE FileLen(_)
FileLen(file) == IF file = <<>> THEN 0 ELSE PartLen(Head(file)) + FileLen(Tail(file))

\* the struct that NewSSTWriter returns.  A Block is the sequence of the
\* entries in its buffer: entriesCnt is its length, firstKey and lastKey are
\* the keys of its first and last entry, nil when it is empty.  The saved
\* bloom filter of a block is the set of the keys added to it.  mapFilter,
\* index, curBlockLength and curBlockOffset are written and never read.
SSTWriter(blockSize) ==
    [blockSize |-> blockSize, dataBlock |-> <<>>, filter |-> {}, dataBuf |-> <<>>,
     indexBlock |-> <<>>, filterBlock |-> <<>>, indexBuf |-> <<>>, filterBuf |-> <<>>]

\* as mustRotateDataBlock, without the Reset of the filter
mustRotateDataBlockKeepFilter(s) ==
    LET currBlockLength == DataLen(s.dataBlock)
        currFilter == s.filter
        flushed == s.dataBuf \o s.dataBlock
        prevLength == DataLen(s.dataBlock)
        cleared == <<>>
        FirstKey == IF cleared = <<>> THEN NilBytes ELSE cleared[1].key
        LastKey == IF cleared = <<>> THEN NilBytes ELSE cleared[Len(cleared)].key
        currIndex == [StartKey |-> FirstKey, EndKey |-> LastKey,
                      Offset |-> prevLength - currBlockLength,
                      Length |-> currBlockLength]
    IN  IF currBlockLength = 0 THEN s
        ELSE [s EXCEPT !.filterBlock = Append(@, [length |-> currBlockLength,
                                                  filter |-> currFilter]),
                       !.dataBlock = cleared,
                       !.indexBlock = Append(@, currIndex),
                       !.dataBuf = flushed \o cleared]

\* mustRotateDataBlock.  Block.Flush makes one Write of the block's bytes to
\* dataBuf and returns the number of bytes of that Write as prevLength, then
\* clears the block; FirstKey() and LastKey() are asked of the cleared block.
mustRotateDataBlock(s) ==
    LET currBlockLength == DataLen(s.dataBlock)
        currFilter == s.filter
        flushed == s.dataBuf \o s.dataBlock
        prevLength == DataLen(s.dataBlock)
        cleared == <<>>
        FirstKey == IF cleared = <<>> THEN NilBytes ELSE cleared[1].key
        LastKey == IF cleared = <<>> THEN NilBytes ELSE cleared[Len(cleared)].key
        currIndex == [StartKey |-> FirstKey, EndKey |-> LastKey,
                      Offset |-> prevLength - currBlockLength,
                      Length |-> currBlockLength]
    IN  IF currBlockLength = 0 THEN s
        ELSE [s EXCEPT !.filterBlock = Append(@, [length |-> currBlockLength,
                                                  filter |-> currFilter]),
                       !.filter = {},
                       !.dataBlock = cleared,
                       !.indexBlock = Append(@, currIndex),
                       !.dataBuf = flushed \o cleared]

\* as WriterAdd, except that the block is rolled when EntriesCnt() has
\* reached BlockSize
WriterAddAtBlockSize(s, key, value) ==
    LET added == [s EXCEPT !.dataBlock = Append(@, [key |-> key, value |-> value]),
                           !.filter = @ \cup {key.b}]
    IN  IF Len(added.dataBlock) < added.blockSize
        THEN added ELSE mustRotateDataBlock(added)

\* SSTWriter.Add with tryRotateDataBlock, which leaves the block while
\* EntriesCnt() <= BlockSize; Add returns nil
WriterAdd(s, key, value) ==
    LET added == [s EXCEPT !.dataBlock = Append(@, [key |-> key, value |-> value]),
                           !.filter = @ \cup {key.b}]
    IN  IF Len(added.dataBlock) <= added.blockSize
        THEN added ELSE mustRotateDataBlock(added)

\* SSTWriter.Flush: the writer after it, and the four parts it writes
WriterFlush(s) ==
    LET r == mustRotateDataBlock(s)
        t == [r EXCEPT !.dataBuf = @ \o r.dataBlock,
                       !.indexBuf = @ \o r.indexBlock,
                       !.filterBuf = @ \o r.filterBlock]
        data == [kind |-> "data", body |-> t.dataBuf]
        index == [kind |-> "index", body |-> t.indexBuf]
        filters == [kind |-> "filter", body |-> t.filterBuf]
        footer == [kind |-> "footer",
                   body |-> <<Uint32(Wide(PartLen(data))), Uint32(Wide(PartLen(index))),
                              Uint32(Wide(PartLen(filters)))>>]
    IN  [s |-> t, parts |-> <<data, index, filters, footer>>]

\* loadIndex, loadDataBlock, loadFilter: ReadAt of the length bytes at offset
\* off (io.EOF when they end after the file does), then the parse of the
\* section.  A section of one to three bytes ends inside the first length
\* that is read from it (io.ErrUnexpectedEOF); a longer one is a part of the
\* file, "torn" standing for bytes that are no part.
LoadSection(file, kind, off, length) ==
    LET size == Wide(FileLen(file))
        end == WideAdd(off, length)
        starts == {i \in 1..Len(file) :
                     /\ Wide(FileLen(SubSeq(file, 1, i - 1))) = off
                     /\ Wide(PartLen(file[i])) = length}
        found == IF starts = {} THEN <<>> ELSE <<file[CHOOSE i \in starts : TRUE]>>
    IN  IF length # Wide(0) /\ ~(end.hi < size.hi \/ (end.hi = size.hi /\ end.lo <= size.lo))
        THEN [err |-> "EOF", body |-> <<>>]
        ELSE IF length = Wide(0) THEN [err |-> "ok", body |-> <<>>]
        ELSE IF length.hi = 0 /\ length.lo < 4 THEN [err |-> "unexpected-EOF", body |-> <<>>]
        ELSE IF found = <<>> \/ found[1].kind # kind THEN [err |-> "torn", body |-> <<>>]
        ELSE IF kind = "data" /\ DataBlockErr(found[1].body) THEN [err |-> "EOF", body |-> <<>>]
        ELSE [err |-> "ok", body |-> found[1].body]

\* loadFilter: every saved filter is loaded and stored under the block length
\* written with it, a later entry replacing an earlier one of the same length
RECURSIVE FilterMapOf(_)
FilterMapOf(filters) ==
    IF filters = <<>> THEN <<>>
    ELSE LET n == Len(filters)
             m == FilterMapOf(SubSeq(filters, 1, n - 1))
         IN  [x \in (DOMAIN m) \cup {filters[n].length} |->
                 IF x = filters[n].length THEN filters[n].filter ELSE m[x]]

\* what NewSSTReader returns with an error
NoReader(err) == [err |-> err, index |-> <<>>, data |-> <<>>, kvList |-> <<>>,
                  filterMap |-> <<>>, dataLength |-> 0]

\* NewSSTReader with loadFooter; the reader keeps the file open, data is the
\* data section that its later ReadAt calls find
SSTReaderOpen(file) ==
    LET size == FileLen(file)
        lens == file[Len(file)].body
        sum == Uint32(WideAdd(Uint32(WideAdd(Uint32(WideAdd(lens[1], lens[2])), lens[3])),
                              Wide(FooterLen)))
        indexOffset == lens[1]
        filterOffset == WideAdd(indexOffset, lens[2])
        index == LoadSection(file, "index", indexOffset, lens[2])
        data == LoadSection(file, "data", Wide(0), lens[1])
        filters == LoadSection(file, "filter", filterOffset, lens[3])
    IN  IF size < FooterLen THEN NoReader("invalid-sst-format")
        ELSE IF sum # Wide(size) THEN NoReader("invalid-sst-format")
        ELSE IF index.err # "ok" THEN NoReader(index.err)
        ELSE IF data.err # "ok" THEN NoReader(data.err)
        ELSE IF filters.err # "ok" THEN NoReader(filters.err)
        ELSE [err |-> "ok",
              index |-> [j \in 1..Len(index.body) |->
                            [index.body[j] EXCEPT !.StartKey = Bytes(@.b),
                                                  !.EndKey = Bytes(@.b)]],
              data |-> data.body, kvList |-> KvListOf(data.body),
              filterMap |-> FilterMapOf(filters.body), dataLength |-> lens[1].lo]

\* searchInBlock, and the scan of the data section that ends Get: the loop
\* over the entries es that start at the position of the bytes.Reader, of
\* which rem bytes are left.  A length that the bytes left do not hold fails
\* with io.EOF or io.ErrUnexpectedEOF; Read at the end of the bytes fails with
\* io.EOF, and a Read of more bytes than are left leaves the zeros of
\* make([]byte, n) in the rest of the slice.
RECURSIVE SearchBytes(_, _, _)
SearchBytes(es, rem, key) ==
    IF rem = 0 THEN [value |-> NilBytes, err |-> "key-not-found"]
    ELSE IF es = <<>> THEN [value |-> NilBytes, err |-> "torn"]
    ELSE IF rem < 4 \/ rem \in 5..7 THEN [value |-> NilBytes, err |-> "unexpected-EOF"]
    ELSE IF rem = 4 \/ rem = 8 THEN [value |-> NilBytes, err |-> "EOF"]
    ELSE LET e == Head(es)
             ReadPadded(b, avail) == [i \in 1..Len(b) |-> IF i <= avail THEN b[i] ELSE 0]
             afterKey == IF rem - 8 > BLen(e.key) THEN rem - 8 - BLen(e.key) ELSE 0
             afterValue == IF afterKey > BLen(e.value) THEN afterKey - BLen(e.value) ELSE 0
         IN  IF ReadPadded(e.key.b, rem - 8) = key.b
             THEN IF afterKey = 0 THEN [value |-> NilBytes, err |-> "EOF"]
                  ELSE [value |-> Bytes(ReadPadded(e.value.b, afterKey)), err |-> "ok"]
             ELSE SearchBytes(Tail(es), afterValue, key)

\* the entries of the data section from byte offset off on
RECURSIVE EntriesFrom(_, _)
EntriesFrom(es, off) ==
    IF off = 0 \/ es = <<>> THEN es
    ELSE IF off < DataLen(<<Head(es)>>) THEN <<>>
    ELSE EntriesFrom(Tail(es), off - DataLen(<<Head(es)>>))

\* Filter.Contains of a loaded filter, for a filter without false positives
Contains(filter, key) == key.b \in filter

\* SSTReader.Get: the index entries from the i-th on, then the whole section
RECURSIVE ReaderGetFrom(_, _, _)
ReaderGetFrom(r, i, key) ==
    LET es == r.data
    IN  IF i > Len(r.index) THEN SearchBytes(es, r.dataLength, key)
        ELSE LET idx == r.index[i]
                 inRange == ~SeqLess(key.b, idx.StartKey.b) /\ ~SeqLess(idx.EndKey.b, key.b)
                 skip == idx.Length \in DOMAIN r.filterMap
                         /\ ~Contains(r.filterMap[idx.Length], key)
                 found == SearchBytes(EntriesFrom(es, idx.Offset), idx.Length, key)
             IN  IF ~inRange \/ skip THEN ReaderGetFrom(r, i + 1, key)
                 ELSE IF idx.Offset + idx.Length > r.dataLength
                      THEN [value |-> NilBytes, err |-> "torn"]
                 ELSE IF found.err = "key-not-found" THEN ReaderGetFrom(r, i + 1, key)
                 ELSE found

\* GetIterator and the Next calls until Next returns false: the pairs the
\* iterator has yielded, and its Error()
Iterate(r) ==
    IF DataBlockErr(r.data)
    THEN [items |-> KvListOf(SubSeq(r.data, 1, Len(r.data) - 1)), err |-> "EOF"]
    ELSE [items |-> KvListOf(r.data), err |-> "ok"]

\* --------------------------------------------------- WAL record, byte by byte
\* Record.Encode and the two decoders on the bytes of one record.  A key or a
\* value may be followed by zero bytes that are counted and not enumerated
\* (keyFill, valueFill), so that records as long as the caps of DecodeRecord
\* can be encoded; those bytes are left out of the checksum.
MaxKeyLength == 10485760        \* 10*1024*1024
MaxValueLength == 104857600     \* 100*1024*1024

\* binary.Write(buf, binary.BigEndian, uint32(n)) and binary.Read of it
U32BE(n) == <<n \div 16777216, (n \div 65536) % 256, (n \div 256) % 256, n % 256>>
BE32(b) == ((b[1] * 256 + b[2]) * 256 + b[3]) * 256 + b[4]

\* a ^ b of two 16-bit numbers
RECURSIVE Xor(_, _)
Xor(a, b) ==
    IF a = 0 THEN b
    ELSE IF b = 0 THEN a
    ELSE ((a + b) % 2) + 2 * Xor(a \div 2, b \div 2)

\* crc32 (IEEE, polynomial 0xedb88320), a register given as its upper and
\* its lower 16 bits.  CrcTable(t) is the entry of the byte t in the table
\* of crc32: eight shifts, each followed by ^ 0xedb88320 when the bit
\* shifted out was 1.
CrcTable(t) ==
    LET Shift(r) ==
            LET hi == r[1] \div 2
                lo == (r[2] \div 2) + 32768 * (r[1] % 2)
            IN  IF r[2] % 2 = 1 THEN <<Xor(hi, 60856), Xor(lo, 33568)>> ELSE <<hi, lo>>
    IN  Shift(Shift(Shift(Shift(Shift(Shift(Shift(Shift(<<0, t>>))))))))

\* the register after the bytes: crc = table[byte(crc) ^ b] ^ (crc >> 8)
RECURSIVE CrcUpdate(_)
CrcUpdate(bytes) ==
    IF bytes = <<>> THEN <<65535, 65535>>
    ELSE LET reg == CrcUpdate(SubSeq(bytes, 1, Len(bytes) - 1))
             entry == CrcTable(Xor(reg[2] % 256, bytes[Len(bytes)]))
         IN  <<Xor(reg[1] \div 256, entry[1]),
               Xor((reg[2] \div 256) + 256 * (reg[1] % 256), entry[2])>>

\* crc32.ChecksumIEEE(bytes), as the four bytes binary.Write makes of it
ChecksumIEEE(bytes) ==
    LET reg == CrcUpdate(bytes)
        hi == 65535 - reg[1]
        lo == 65535 - reg[2]
    IN  <<hi \div 256, hi % 256, lo \div 256, lo % 256>>

\* Record.Encode
Encode(r, keyFill, valueFill) ==
    LET head == <<IF r.type = "Put" THEN 0 ELSE 1>>
                \o U32BE(BLen(r.key) + keyFill) \o U32BE(BLen(r.value) + valueFill)
                \o r.key.b \o r.value.b
    IN  [b |-> head \o ChecksumIEEE(head), keyFill |-> keyFill, valueFill |-> valueFill]

\* a sanity cap that rejects a key or a value of exactly the cap
TooLargeAtCap(keyLength, valueLength) ==
    keyLength >= MaxKeyLength \/ valueLength >= MaxValueLength

\* DecodeRecord, line 83
TooLarge(keyLength, valueLength) ==
    keyLength > MaxKeyLength \/ valueLength > MaxValueLength

NoRecord(by, err) ==
    [by |-> by, err |-> err, type |-> "none", key |-> NilBytes, value |-> NilBytes,
     keyFill |-> 0, valueFill |-> 0, applied |-> 0]

\* DecodeRecord(data)
DecodeRecord(data) ==
    LET len == Len(data.b) + data.keyFill + data.valueFill
        keyLength == BE32(SubSeq(data.b, 2, 5))
        valueLength == BE32(SubSeq(data.b, 6, 9))
        expectedLength == 9 + keyLength + valueLength + 4
        k == keyLength - data.keyFill        \* enumerated bytes of the key
        v == valueLength - data.valueFill    \* enumerated bytes of the value
        storedCrc == SubSeq(data.b, 10 + k + v, 13 + k + v)
        actualCrc == ChecksumIEEE(SubSeq(data.b, 1, 9 + k + v))
    IN  IF len < 9 THEN NoRecord("DecodeRecord", "record-data-too-short")
        ELSE IF TooLarge(keyLength, valueLength)
             THEN NoRecord("DecodeRecord", "length-too-large")
        ELSE IF len < expectedLength
             THEN NoRecord("DecodeRecord", "record-data-incomplete")
        ELSE IF storedCrc # actualCrc THEN NoRecord("DecodeRecord", "crc-mismatch")
        ELSE [by |-> "DecodeRecord", err |-> "ok",
              type |-> IF data.b[1] = 0 THEN "Put"
                       ELSE IF data.b[1] = 1 THEN "Delete" ELSE "unknown",
              key |-> Bytes(SubSeq(data.b, 10, 9 + k)),
              value |-> Bytes(SubSeq(data.b, 10 + k, 9 + k + v)),
              keyFill |-> data.keyFill, valueFill |-> data.valueFill, applied |-> 0]

\* DecodeStream(r, callback) on a reader of the bytes of one record.  r.Read
\* fills buf, the 9 bytes of make([]byte, 1+4+4); the key is sliced out of
\* buf as buf[9:9+keyLength], beyond the capacity of buf when the key is not
\* empty; the value and the checksum are read from what buf holds after its
\* ninth byte, which is nothing.  applied counts the calls of callback.
DecodeStream(data) ==
    LET len == Len(data.b) + data.keyFill + data.valueFill
        keyLength == BE32(SubSeq(data.b, 2, 5))
        valueLength == BE32(SubSeq(data.b, 6, 9))
        bufCap == 9
    IN  IF len = 0 THEN NoRecord("DecodeStream", "ok")
        ELSE IF 9 + keyLength > bufCap
             THEN NoRecord("DecodeStream", "panic-slice-bounds-out-of-range")
        ELSE IF valueLength > bufCap - (9 + keyLength)
             THEN NoRecord("DecodeStream", "decode-value")
        ELSE IF 4 > bufCap - (9 + keyLength + valueLength)
             THEN NoRecord("DecodeStream", "decode-crc")
        ELSE NoRecord("DecodeStream", "crc-mismatch")

\* -------------------------------------------------------------------- state
VARIABLES
    phase,           \* "open": a tree returned by NewLsmTree is in use; "closed"
    mutableIndex,    \* LsmTree.mutableIndex
    walId,           \* LsmTree.walId
    curWal,          \* LsmTree.curWal: the id of the file the handle is open on
    immutableIndex,  \* LsmTree.immutableIndex: sequence of immutables, NilImm for nil
    compactCh,       \* LsmTree.compactCh: buffered channel of immutables
    stopCh,          \* LsmTree.stopCh: TRUE once closed
    nodes,           \* LsmTree.nodes: level -> sequence of nodes
    seq,             \* LsmTree.seq: level -> counter
    walDir,          \* WAL directory: id -> file
    sstDir,          \* SST directory: <<level, seq>> -> file
    wpc,             \* compaction worker: "idle", a step of doCompact, "stopped"
    wImm,            \* doCompact: imm
    wIndex,          \* doCompact: index
    wSeq,            \* doCompact: seq
    wSlice,          \* doCompact, line 290: the slice header loaded from
                     \* t.immutableIndex, before the result is stored back
    ppc,             \* caller inside Put/Delete: "idle", "seal", "swap"
    pending,         \* the Put/Delete that has not returned yet: <<key, value>>
    ret,             \* what the last Put/Delete/Close returned, "none" before any
    latest,          \* history: key -> <<value>> of the last Put/Delete of the key that
                     \* returned ok (NilBytes for a Delete), <<>> if there is none
    wasPut,          \* history: keys for which a Put has returned ok
    ops,             \* history: number of Put/Delete calls
    opens,           \* history: number of re-opens
    fresh,           \* history: no Put/Delete was called since the last NewLsmTree
    openErr,         \* result of the last NewLsmTree
    faults,          \* history: number of injected I/O errors and nil-key calls
    skipped,         \* the WAL handles that the last Close returned without closing
    entryName,       \* a directory entry handed to the recovery's name parsing
    loadErr,         \* what loadSST / loadWAL answers for entryName, "none" before
    sw,              \* an SSTWriter used on its own: the fields of the struct
    swFile,          \* the file of sw: the parts written to it, in order
    swLog,           \* history of sw: the calls made on it and what they returned
    sr,              \* the SSTReader opened on swFile, and the error of opening it
    rec,             \* a WAL Record handed to Encode
    recData,         \* the bytes of rec as encoded, and as damaged afterwards
    recOut,          \* what a decoder answered for recData, "none" before
    mt               \* a BTreeMemTable used on its own: its tree, the last call
                     \* made on it and what the call returned or visited

engineVars == <<phase, mutableIndex, walId, curWal, immutableIndex, compactCh,
                stopCh, nodes, seq>>
diskVars == <<walDir, sstDir>>
workerVars == <<wpc, wImm, wIndex, wSeq, wSlice>>
callerVars == <<ppc, pending, ret>>
historyVars == <<latest, wasPut, ops, opens, fresh, openErr>>
faultVars == <<faults, skipped>>
nameVars == <<entryName, loadErr>>
sstVars == <<sw, swFile, swLog, sr>>
recVars == <<rec, recData, recOut>>
auxVars == <<faultVars, nameVars, sstVars, recVars, mt>>
vars == <<engineVars, diskVars, workerVars, callerVars, historyVars, auxVars>>

Levels == 0..(LevelSize - 1)

\* type immutable struct { wal; index }; org and wal give the pointer identity:
\* "rec" for an immutable made by loadWAL, "rot" for one made by rotateWal
Immutable(org, id, index) == [org |-> org, wal |-> id, index |-> index]
NilImm == [org |-> "nil", wal |-> 0, index |-> <<>>]

\* ------------------------------------------------------------------ read path
\* LsmTree.Get, the loop over immutableIndex from the newest to the oldest;
\* a nil element is dereferenced
RECURSIVE GetSealed(_, _, _)
GetSealed(imms, i, key) ==
    IF i = 0 THEN [value |-> NilBytes, err |-> "key-not-found"]
    ELSE IF imms[i] = NilImm THEN [value |-> NilBytes, err |-> "panic"]
    ELSE LET r == MemGet(imms[i].index, key)
         IN  IF r.err = "ok" THEN r ELSE GetSealed(imms, i - 1, key)

\* LsmTree.Get, the loop over one level from the last node to the first
RECURSIVE GetLevel(_, _, _)
GetLevel(nodeSlice, i, key) ==
    IF i = 0 THEN [value |-> NilBytes, err |-> "key-not-found"]
    ELSE LET r == NodeGet(nodeSlice[i], key)
         IN  IF r.err = "ok"
             THEN IF r.value.nil
                  THEN [value |-> r.value, err |-> "value-nil"]
                  ELSE r
             ELSE IF r.err = "key-not-found" THEN GetLevel(nodeSlice, i - 1, key)
             ELSE [value |-> NilBytes, err |-> r.err]

\* LsmTree.Get, the loop over the levels
RECURSIVE GetNodes(_, _, _)
GetNodes(ns, level, key) ==
    IF level >= LevelSize THEN [value |-> NilBytes, err |-> "key-not-found"]
    ELSE LET r == GetLevel(ns[level], Len(ns[level]), key)
         IN  IF r.err = "key-not-found" THEN GetNodes(ns, level + 1, key) ELSE r

\* LsmTree.Get(key)
Get(mem, imms, ns, key) ==
    LET r == MemGet(mem, key)
    IN  IF r.err = "ok" THEN r
        ELSE LET s == GetSealed(imms, Len(imms), key)
             IN  IF s.err # "key-not-found" THEN s
                 ELSE GetNodes(ns, 0, key)

\* the answer of a Get(key) issued in the current state
GetResult(key) == Get(mutableIndex, immutableIndex, nodes, key)

\* -------------------------------------------------------------------- recovery
PathLess(p, q) == p[1] < q[1] \/ (p[1] = q[1] /\ p[2] < q[2])

\* loadSST: the files in (level, seq) order, each opened and appended to its level
RECURSIVE LoadSSTFrom(_, _, _)
LoadSSTFrom(dir, todo, ns) ==
    IF todo = {} THEN [err |-> "ok", nodes |-> ns]
    ELSE LET p == CHOOSE x \in todo : \A y \in todo : y = x \/ PathLess(x, y)
             r == NewSSTReader(dir, p)
         IN  IF r.err # "ok" THEN [err |-> r.err, nodes |-> ns]
             ELSE LoadSSTFrom(dir, todo \ {p},
                      [ns EXCEPT ![p[1]] = Append(@, NewNode(p[1], p[2], r))])

loadSST(dir) == LoadSSTFrom(dir, DOMAIN dir, [l \in Levels |-> <<>>])

\* loadWAL: the files in id order, each replayed into a fresh memtable and
\* appended to immutableIndex; walId is the id of the last one
RECURSIVE LoadWALFrom(_, _, _)
LoadWALFrom(dir, todo, imms) ==
    IF todo = {} THEN imms
    ELSE LET id == CHOOSE x \in todo : \A y \in todo : x <= y
         IN  LoadWALFrom(dir, todo \ {id},
                 Append(imms, Immutable("rec", id, ReadAll(dir, id))))

\* a recovery that makes no immutable for a WAL file without records
loadWALSkipEmpty(dir) ==
    LET imms == LoadWALFrom(dir, {id \in DOMAIN dir : dir[id] # <<>>}, <<>>)
    IN  [immutableIndex |-> imms,
         walId |-> IF imms = <<>> THEN 0 ELSE imms[Len(imms)].wal]

loadWAL(dir) ==
    LET imms == LoadWALFrom(dir, DOMAIN dir, <<>>)
    IN  [immutableIndex |-> imms,
         walId |-> IF imms = <<>> THEN 0 ELSE imms[Len(imms)].wal]

\* NewLsmTree, lines 76-78: the id of the fresh writable WAL
FirstWalId(loaded) == IF loaded # 0 THEN loaded + 1 ELSE loaded

\* ------------------------------------------- writer and record before use
\* NewSSTWriter(conf, filename) on a path that holds no file: the writer, the
\* file it has created, no reader; rec holds no call yet
SstStart(blockSize) ==
    /\ sw = SSTWriter(blockSize)
    /\ swFile = <<>>
    /\ swLog = [added |-> <<>>, flushed |-> <<>>, rolled |-> <<>>, base |-> 0,
                adds |-> 0, flushes |-> 0, damaged |-> FALSE, ret |-> "none"]
    /\ sr = NoReader("none")

\* a record that was handed to no call yet
RecStart(r, keyFill, valueFill) ==
    /\ rec = [r |-> r, keyFill |-> keyFill, valueFill |-> valueFill]
    /\ recData = [b |-> <<>>, keyFill |-> 0, valueFill |-> 0, flipped |-> FALSE]
    /\ recOut = NoRecord("none", "none")

\* ------------------------------------------------------------------------ Init
\* The state after NewLsmTree on empty directories: wal-0.log is created,
\* the worker waits in its select.
EngineInit ==
    /\ phase = "open"
    /\ mutableIndex = NewMemTable
    /\ walId = 0
    /\ curWal = 0
    /\ immutableIndex = <<>>
    /\ compactCh = <<>>
    /\ stopCh = FALSE
    /\ nodes = [l \in Levels |-> <<>>]
    /\ seq = [l \in Levels |-> 0]
    /\ walDir = NewWal(<<>>, 0)
    /\ sstDir = <<>>
    /\ wpc = "idle"
    /\ wImm = NilImm
    /\ wIndex = 0
    /\ wSeq = 0
    /\ wSlice = <<>>
    /\ ppc = "idle"
    /\ pending = <<>>
    /\ ret = "none"
    /\ latest = [k \in Keys |-> <<>>]
    /\ wasPut = {}
    /\ ops = 0
    /\ opens = 0
    /\ fresh = TRUE
    /\ openErr = "ok"
    /\ faults = 0
    /\ skipped = {}
    /\ mt = [tree |-> NewMemTable, calls |-> 0, op |-> "none", key |-> NilBytes,
             value |-> NilBytes, err |-> "none", out |-> NilBytes,
             stop |-> 0, visited |-> <<>>]

Init ==
    /\ EngineInit
    /\ entryName = [dir |-> "none", name |-> <<>>]
    /\ loadErr = "none"
    /\ SstStart(BlockSize)
    /\ RecStart(NewRecord(NilBytes, NilBytes), 0, 0)

\* ------------------------------------------------------------------ write path
\* the call returns ok: the history records it
Return(key, value) ==
    /\ latest' = [latest EXCEPT ![key] = <<value>>]
    /\ wasPut' = IF value.nil THEN wasPut ELSE wasPut \cup {key}

\* Put / Delete up to the size check: append to the current WAL, insert into
\* the mutable memtable, then either return or enter rotateWal
WritePath(key, value) ==
    /\ phase = "open"
    /\ ppc = "idle"
    /\ ops < MaxOps
    /\ walDir' = WalWrite(walDir, curWal, key, value)
    /\ mutableIndex' = MemPut(mutableIndex, key, value)
    /\ ops' = ops + 1
    /\ fresh' = FALSE
    /\ IF WalFileSize(walDir', curWal) > WalSize
       THEN /\ ppc' = "seal"
            /\ pending' = <<key, value>>
            /\ UNCHANGED <<latest, wasPut, ret>>
       ELSE /\ Return(key, value)
            /\ ret' = "ok"
            /\ UNCHANGED <<ppc, pending>>
    /\ UNCHANGED <<phase, walId, curWal, immutableIndex, compactCh, stopCh,
                   nodes, seq, sstDir, workerVars, opens, openErr, auxVars>>

\* LsmTree.Put(key, value)
Put(key, value) == WritePath(key, value)

\* LsmTree.Delete(key): the value written is nil
Delete(key) == WritePath(key, NilBytes)

\* rotateWal, lines 132-147: the current (WAL, memtable) pair becomes an
\* immutable, is appended to immutableIndex and is sent to compactCh unless
\* the channel is full
RotateSealAtHead ==
    /\ ppc = "seal"
    /\ LET imm == Immutable("rot", curWal, mutableIndex)
       IN  /\ immutableIndex' = <<imm>> \o immutableIndex
           /\ compactCh' = IF Len(compactCh) < CompactChCap
                           THEN Append(compactCh, imm)
                           ELSE compactCh
    /\ ppc' = "swap"
    /\ UNCHANGED <<phase, mutableIndex, walId, curWal, stopCh, nodes, seq,
                   diskVars, workerVars, pending, ret, historyVars, auxVars>>

RotateSeal ==
    /\ ppc = "seal"
    /\ LET imm == Immutable("rot", curWal, mutableIndex)
       IN  /\ immutableIndex' = Append(immutableIndex, imm)
           /\ compactCh' = IF Len(compactCh) < CompactChCap
                           THEN Append(compactCh, imm)
                           ELSE compactCh
    /\ ppc' = "swap"
    /\ UNCHANGED <<phase, mutableIndex, walId, curWal, stopCh, nodes, seq,
                   diskVars, workerVars, pending, ret, historyVars, auxVars>>

\* rotateWal, lines 149-156: the next WAL and an empty memtable are
\* installed; Put / Delete return
RotateSwap ==
    /\ ppc = "swap"
    /\ walId' = walId + 1
    /\ walDir' = NewWal(walDir, walId + 1)
    /\ curWal' = walId + 1
    /\ mutableIndex' = NewMemTable
    /\ ppc' = "idle"
    /\ pending' = <<>>
    /\ Return(pending[1], pending[2])
    /\ ret' = "ok"
    /\ UNCHANGED <<phase, immutableIndex, compactCh, stopCh, nodes, seq, sstDir,
                   workerVars, ops, opens, fresh, openErr, auxVars>>

\* --------------------------------------------------------- compaction worker
\* the statements of doCompact after the sequence number is taken, in
\* program order: writeMemTableToSST (275), wal.Delete (285), the nil store
\* (288), the removal from immutableIndex (290: the slice header is loaded,
\* the shortened slice is stored back), NewSSTReader / NewNode / append to
\* nodes[0] (293-301)
CompactOrderWalFirst == <<"delwal", "write", "nil", "remove", "store", "install">>
CompactOrder == <<"write", "delwal", "nil", "remove", "store", "install">>

StepIndex(pc) == CHOOSE i \in 1..Len(CompactOrder) : CompactOrder[i] = pc
StepAfter(pc) ==
    IF StepIndex(pc) = Len(CompactOrder) THEN "idle"
    ELSE CompactOrder[StepIndex(pc) + 1]

\* doCompact, lines 239-251: the position of imm in immutableIndex, 0 if absent
Find(imms, imm) ==
    IF \E i \in 1..Len(imms) : imms[i] = imm
    THEN CHOOSE i \in 1..Len(imms) :
             imms[i] = imm /\ \A j \in 1..(i - 1) : imms[j] # imm
    ELSE 0

\* compactWorker receives an immutable; doCompact looks it up and takes the
\* next level-0 sequence number (lines 91, 239-274)
WorkerReceive ==
    /\ wpc = "idle"
    /\ compactCh # <<>>
    /\ compactCh' = Tail(compactCh)
    /\ LET imm == Head(compactCh)
           index == Find(immutableIndex, imm)
       IN  IF index = 0
           THEN UNCHANGED <<seq, workerVars>>
           ELSE /\ wImm' = imm
                /\ wIndex' = index
                /\ wSeq' = seq[0]
                /\ seq' = [seq EXCEPT ![0] = @ + 1]
                /\ wpc' = CompactOrder[1]
                /\ UNCHANGED wSlice
    /\ UNCHANGED <<phase, mutableIndex, walId, curWal, immutableIndex, stopCh,
                   nodes, diskVars, callerVars, historyVars, auxVars>>

\* the worker returns to its select
WorkerDone ==
    /\ wpc' = "idle"
    /\ wImm' = NilImm
    /\ wIndex' = 0
    /\ wSeq' = 0
    /\ wSlice' = <<>>

WorkerGoto(pc) ==
    IF pc = "idle" THEN WorkerDone
    ELSE wpc' = pc /\ UNCHANGED <<wImm, wIndex, wSeq, wSlice>>

\* doCompact, line 275
CompactWrite ==
    /\ wpc = "write"
    /\ sstDir' = writeMemTableToSST(sstDir, wImm, getSSTFilePath(0, wSeq))
    /\ WorkerGoto(StepAfter("write"))
    /\ UNCHANGED <<engineVars, walDir, callerVars, historyVars, auxVars>>

\* doCompact, line 285: the file is removed; if it is not there the error is
\* returned
CompactDeleteWal ==
    /\ wpc = "delwal"
    /\ LET id == immutableIndex[wIndex].wal
       IN  IF id \in DOMAIN walDir
           THEN /\ walDir' = WalDelete(walDir, id)
                /\ WorkerGoto(StepAfter("delwal"))
           ELSE /\ UNCHANGED walDir
                /\ WorkerDone
    /\ UNCHANGED <<engineVars, sstDir, callerVars, historyVars, auxVars>>

\* doCompact, line 288
CompactNil ==
    /\ wpc = "nil"
    /\ immutableIndex' = [immutableIndex EXCEPT ![wIndex] = NilImm]
    /\ WorkerGoto(StepAfter("nil"))
    /\ UNCHANGED <<phase, mutableIndex, walId, curWal, compactCh, stopCh, nodes,
                   seq, diskVars, callerVars, historyVars, auxVars>>

\* append(s[:index], s[index+1:]...)
RemoveAt(s, index) ==
    [i \in 1..(Len(s) - 1) |-> IF i < index THEN s[i] ELSE s[i + 1]]

\* doCompact, line 290, right-hand side: t.immutableIndex is loaded (slice
\* header: array and length) to build the shortened slice
CompactRemove ==
    /\ wpc = "remove"
    /\ wpc' = StepAfter("remove")
    /\ wSlice' = immutableIndex
    /\ UNCHANGED <<engineVars, diskVars, wImm, wIndex, wSeq, callerVars,
                   historyVars, auxVars>>

\* doCompact, line 290, the assignment: the elements after index are moved
\* down within the length that was loaded, and the header of the shortened
\* slice is stored into t.immutableIndex (no lock: an append that the caller
\* made since the load is overwritten)
CompactStore ==
    /\ wpc = "store"
    /\ immutableIndex' = RemoveAt(wSlice, wIndex)
    /\ WorkerGoto(StepAfter("store"))
    /\ UNCHANGED <<phase, mutableIndex, walId, curWal, compactCh, stopCh, nodes,
                   seq, diskVars, callerVars, historyVars, auxVars>>

\* doCompact, lines 293-301: the reader is opened on the file; on an error
\* doCompact returns it, else the node is appended to level 0
CompactInstall ==
    /\ wpc = "install"
    /\ LET reader == NewSSTReader(sstDir, getSSTFilePath(0, wSeq))
       IN  IF reader.err # "ok"
           THEN /\ UNCHANGED nodes
                /\ WorkerDone
           ELSE /\ nodes' = [nodes EXCEPT ![0] = Append(@, NewNode(0, wSeq, reader))]
                /\ WorkerGoto(StepAfter("install"))
    /\ UNCHANGED <<phase, mutableIndex, walId, curWal, immutableIndex, compactCh,
                   stopCh, seq, diskVars, callerVars, historyVars, auxVars>>

\* compactWorker, lines 89-90: the worker looks at its channels only in the
\* select at the head of its loop, between two calls of doCompact
SelectPointsAnywhere == {"idle"} \cup {CompactOrder[i] : i \in 1..Len(CompactOrder)}
SelectPoints == {"idle"}

\* compactWorker, line 99: the stop channel is closed
WorkerStop ==
    /\ wpc \in SelectPoints
    /\ stopCh
    /\ wpc' = "stopped"
    /\ UNCHANGED <<engineVars, diskVars, wImm, wIndex, wSeq, wSlice, callerVars,
                   historyVars, auxVars>>

\* ------------------------------------------------------------- close and open
\* LsmTree.Close: the stop channel is closed, the WAL handles are closed
Close ==
    /\ phase = "open"
    /\ ppc = "idle"
    /\ phase' = "closed"
    /\ stopCh' = TRUE
    /\ ret' = "ok"
    /\ skipped' = {}
    /\ UNCHANGED <<mutableIndex, walId, curWal, immutableIndex, compactCh, nodes,
                   seq, diskVars, workerVars, ppc, pending, historyVars, faults,
                   nameVars, sstVars, recVars, mt>>

\* NewLsmTree on the directories left by the closed tree, once its worker
\* has exited
Open ==
    /\ phase = "closed"
    /\ wpc = "stopped"
    /\ opens < MaxOpens
    /\ opens' = opens + 1
    /\ LET ssts == loadSST(sstDir)
           wals == loadWAL(walDir)
           id == FirstWalId(wals.walId)
       IN  IF ssts.err # "ok"
           THEN /\ openErr' = ssts.err
                /\ fresh' = TRUE
                /\ UNCHANGED <<engineVars, diskVars, workerVars>>
           ELSE /\ openErr' = "ok"
                /\ phase' = "open"
                /\ mutableIndex' = NewMemTable
                /\ immutableIndex' = wals.immutableIndex
                /\ compactCh' = <<>>
                /\ stopCh' = FALSE
                /\ nodes' = ssts.nodes
                /\ seq' = [l \in Levels |-> 0]
                /\ walId' = id
                /\ curWal' = id
                /\ walDir' = NewWal(walDir, id)
                /\ wpc' = "idle"
                /\ fresh' = TRUE
                /\ UNCHANGED <<sstDir, wImm, wIndex, wSeq, wSlice>>
    /\ UNCHANGED <<callerVars, latest, wasPut, ops, auxVars>>

\* ------------------------------------------------------------------------ Next
Next ==
    \/ \E k \in Keys, v \in PutVals : Put(k, v)
    \/ \E k \in Keys : Delete(k)
    \/ RotateSeal
    \/ RotateSwap
    \/ WorkerReceive
    \/ CompactWrite
    \/ CompactDeleteWal
    \/ CompactNil
    \/ CompactRemove
    \/ CompactStore
    \/ CompactInstall
    \/ WorkerStop
    \/ Close
    \/ Open

Spec == Init /\ [][Next]_vars

\* the worker is scheduled fairly
Worker ==
    \/ WorkerReceive
    \/ CompactWrite
    \/ CompactDeleteWal
    \/ CompactNil
    \/ CompactRemove
    \/ CompactStore
    \/ CompactInstall
    \/ WorkerStop

FairSpec == Spec /\ WF_vars(Worker)

\* ------------------------------------------------- failing calls and steps
\* Put / Delete, lines 160-166: the two steps before the size check, in
\* program order
WriteOrderMemFirst == <<"mem", "wal">>
WriteOrder == <<"wal", "mem">>

\* the error of one step: Wal.Write returns the I/O error it met,
\* BTreeMemTable.Put refuses a nil key
StepErr(step, key, walErr) ==
    IF step = "wal" THEN (IF walErr THEN "io-error" ELSE "ok")
    ELSE (IF key.nil THEN "key-nil" ELSE "ok")

\* the step has run and has succeeded: the second step runs only after the
\* first has returned nil
StepDone(step, key, walErr) ==
    /\ StepErr(step, key, walErr) = "ok"
    /\ step = WriteOrder[1] \/ StepErr(WriteOrder[1], key, walErr) = "ok"

\* Put / Delete when a step fails: the error of the first failing step is
\* returned before the size check (a Wal.Write that fails is taken to leave
\* the file as it was)
WriteFail(key, value, walErr) ==
    /\ phase = "open"
    /\ ppc = "idle"
    /\ ops < MaxOps
    /\ faults < MaxFaults
    /\ walErr \/ key.nil
    /\ walDir' = IF StepDone("wal", key, walErr)
                 THEN WalWrite(walDir, curWal, key, value) ELSE walDir
    /\ mutableIndex' = IF StepDone("mem", key, walErr)
                       THEN MemPut(mutableIndex, key, value) ELSE mutableIndex
    /\ ret' = IF StepErr(WriteOrder[1], key, walErr) # "ok"
              THEN StepErr(WriteOrder[1], key, walErr)
              ELSE StepErr(WriteOrder[2], key, walErr)
    /\ ops' = ops + 1
    /\ faults' = faults + 1
    /\ fresh' = FALSE
    /\ UNCHANGED <<phase, walId, curWal, immutableIndex, compactCh, stopCh,
                   nodes, seq, sstDir, workerVars, ppc, pending, latest, wasPut,
                   opens, openErr, skipped, nameVars, sstVars, recVars, mt>>

PutFailing(key, value, walErr) == WriteFail(key, value, walErr)

\* rotateWal, lines 149-153: wal.NewWal returns an error (no file is made);
\* t.walId has been incremented, the error is returned by Put / Delete
RotateFail ==
    /\ ppc = "swap"
    /\ faults < MaxFaults
    /\ walId' = walId + 1
    /\ ppc' = "idle"
    /\ pending' = <<>>
    /\ ret' = "io-error"
    /\ faults' = faults + 1
    /\ UNCHANGED <<phase, mutableIndex, curWal, immutableIndex, compactCh, stopCh,
                   nodes, seq, diskVars, workerVars, historyVars, skipped,
                   nameVars, sstVars, recVars, mt>>

DeleteFailing(key, walErr) == WriteFail(key, NilBytes, walErr)

\* doCompact, lines 275-277: an error of writeMemTableToSST is returned
AbortsOnNothing(err) == FALSE
AbortsOn(err) == err # "ok"

\* writeMemTableToSST fails: at = 0 when NewSSTWriter (OpenFile) fails and
\* no file is created, at = n when the n-th Write of Flush fails
\* (SSTWriter.Add writes to memory buffers only; SSTWriter.Close returns nil)
CompactWriteFail(at) ==
    /\ wpc = "write"
    /\ faults < MaxFaults
    /\ faults' = faults + 1
    /\ sstDir' = IF at = 0 THEN sstDir
                 ELSE writeMemTableToSSTFailing(sstDir, wImm,
                          getSSTFilePath(0, wSeq), at - 1)
    /\ IF AbortsOn("io-error")
       THEN WorkerDone
       ELSE WorkerGoto(StepAfter("write"))
    /\ UNCHANGED <<engineVars, walDir, callerVars, historyVars, skipped, nameVars, sstVars, recVars, mt>>

\* Close, lines 112-121: the handles in the order Close closes them, the
\* current WAL first, then the WAL of every immutable
CloseSteps ==
    <<[org |-> "cur", wal |-> curWal]>> \o
    [i \in 1..Len(immutableIndex) |->
        [org |-> immutableIndex[i].org, wal |-> immutableIndex[i].wal]]

\* Close when the i-th Wal.Close returns an error: Close returns it at once
CloseFail(i) ==
    /\ phase = "open"
    /\ ppc = "idle"
    /\ faults < MaxFaults
    /\ i \in 1..Len(CloseSteps)
    /\ phase' = "closed"
    /\ stopCh' = TRUE
    /\ ret' = "io-error"
    /\ skipped' = {CloseSteps[j] : j \in (i + 1)..Len(CloseSteps)}
    /\ faults' = faults + 1
    /\ UNCHANGED <<mutableIndex, walId, curWal, immutableIndex, compactCh, nodes,
                   seq, diskVars, workerVars, ppc, pending, historyVars, nameVars, sstVars, recVars, mt>>

\* the engine with Put / Delete calls that fail
WriteFaultNext ==
    \/ Next
    \/ \E k \in Keys \cup {NilBytes}, v \in PutVals, e \in BOOLEAN : PutFailing(k, v, e)
    \/ \E k \in Keys \cup {NilBytes}, e \in BOOLEAN : DeleteFailing(k, e)
    \/ RotateFail

WriteFaultSpec == Init /\ [][WriteFaultNext]_vars

\* the engine with compactions whose SST write fails
CompactFaultNext ==
    \/ Next
    \/ \E at \in 0..SectionCount : CompactWriteFail(at)

CompactFaultSpec == Init /\ [][CompactFaultNext]_vars

\* the engine with Close calls in which a Wal.Close fails
CloseFaultNext ==
    \/ Next
    \/ \E i \in 1..(MaxOps + MaxOpens + 2) : CloseFail(i)

CloseFaultSpec == Init /\ [][CloseFaultNext]_vars

\* the process stops while doCompact runs: before writeMemTableToSST (wpc =
\* "write", at = 0), inside it after the file was created and at - 1 of the
\* Writes of Flush were made (at > 0), or at one of the later statements.
\* Nothing of the tree outlives the process; the directories do.
Crash(at) ==
    /\ phase = "open"
    /\ ppc = "idle"
    /\ wpc \notin {"idle", "stopped"}
    /\ faults < MaxFaults
    /\ at > 0 => wpc = "write"
    /\ sstDir' = IF at > 0
                 THEN writeMemTableToSSTFailing(sstDir, wImm,
                          getSSTFilePath(0, wSeq), at - 1)
                 ELSE sstDir
    /\ phase' = "closed"
    /\ stopCh' = TRUE
    /\ wpc' = "stopped"
    /\ ret' = "crash"
    /\ faults' = faults + 1
    /\ UNCHANGED <<mutableIndex, walId, curWal, immutableIndex, compactCh, nodes,
                   seq, walDir, wImm, wIndex, wSeq, wSlice, ppc, pending,
                   historyVars, skipped, nameVars, sstVars, recVars, mt>>

\* the engine with a process that stops during a compaction
CrashNext ==
    \/ Next
    \/ \E at \in 0..SectionCount : Crash(at)

CrashSpec == Init /\ [][CrashNext]_vars

\* ------------------------------------------------- names of directory entries
\* A file name is a sequence of symbols: characters, and the strings that
\* the recovery tests and trims as a whole.
NameSymbols == {"0", "7", "a", "-", "_", ".sst", ".log", "wal-"}

Names == UNION {[1..n -> NameSymbols] : n \in 1..MaxNameLen}

Digits == {"0", "7"}

IsDigits(s) == s # <<>> /\ \A i \in 1..Len(s) : s[i] \in Digits

DigitVal(c) == IF c = "7" THEN 7 ELSE 0

\* the value of a digit string
RECURSIVE DecimalVal(_)
DecimalVal(s) ==
    IF s = <<>> THEN 0
    ELSE 10 * DecimalVal(SubSeq(s, 1, Len(s) - 1)) + DigitVal(s[Len(s)])

\* strings.HasSuffix / strings.TrimSuffix, strings.HasPrefix / strings.TrimPrefix
HasSuffix(s, suffix) == s # <<>> /\ s[Len(s)] = suffix
TrimSuffix(s, suffix) == IF HasSuffix(s, suffix) THEN SubSeq(s, 1, Len(s) - 1) ELSE s
HasPrefix(s, prefix) == s # <<>> /\ s[1] = prefix
TrimPrefix(s, prefix) == IF HasPrefix(s, prefix) THEN Tail(s) ELSE s

\* strings.Split(s, "_"): the parts between the separators, one more than
\* there are separators
RECURSIVE Split(_, _)
Split(s, sep) ==
    IF \A i \in 1..Len(s) : s[i] # sep THEN <<s>>
    ELSE LET i == CHOOSE j \in 1..Len(s) : s[j] = sep /\ \A h \in 1..(j - 1) : s[h] # sep
         IN  <<SubSeq(s, 1, i - 1)>> \o Split(SubSeq(s, i + 1, Len(s)), sep)

\* strconv.Atoi: an optional sign and digits (the names of this model are
\* too short to leave the range of int)
Atoi(s) ==
    IF s # <<>> /\ s[1] = "-" /\ IsDigits(Tail(s))
    THEN [err |-> "ok", val |-> 0 - DecimalVal(Tail(s))]
    ELSE IF IsDigits(s) THEN [err |-> "ok", val |-> DecimalVal(s)]
    ELSE [err |-> "strconv-syntax", val |-> 0]

\* strconv.ParseUint(s, 10, 32): digits only
ParseUint(s) ==
    IF IsDigits(s) THEN [err |-> "ok", val |-> DecimalVal(s)]
    ELSE [err |-> "strconv-syntax", val |-> 0]

\* parseSSTFileName(fileName)
parseSSTFileName(fileName) ==
    LET parts == Split(fileName, "_")
    IN  IF Len(parts) # 2 THEN [err |-> "sst-corrupted", level |-> 0, seq |-> 0]
        ELSE IF Atoi(parts[1]).err # "ok"
             THEN [err |-> Atoi(parts[1]).err, level |-> 0, seq |-> 0]
        ELSE IF ParseUint(parts[2]).err # "ok"
             THEN [err |-> ParseUint(parts[2]).err, level |-> 0, seq |-> 0]
        ELSE [err |-> "ok", level |-> Atoi(parts[1]).val, seq |-> ParseUint(parts[2]).val]

\* loadSST for a directory that holds the one entry: the name is tested and
\* parsed (lines 44-59), the file is opened by NewSSTReader, which succeeds
\* if the file is a readable SST, and the node is appended to
\* t.nodes[level] (line 82), which panics for a level outside the slice
loadSSTEntry(name, readable) ==
    IF ~HasSuffix(name, ".sst") THEN "sst-corrupted"
    ELSE LET parsed == parseSSTFileName(TrimSuffix(name, ".sst"))
         IN  IF parsed.err # "ok" THEN parsed.err
             ELSE IF ~readable THEN "invalid-sst-format"
             ELSE IF parsed.level \notin Levels THEN "panic-index-out-of-range"
             ELSE "ok"

\* loadWAL for a directory that holds the one entry (lines 115-127)
loadWALEntry(name) ==
    IF ~HasPrefix(name, "wal-") \/ ~HasSuffix(name, ".log") THEN "wal-corrupted"
    ELSE LET walName == TrimPrefix(TrimSuffix(name, ".log"), "wal-")
         IN  IF ParseUint(walName).err # "ok" THEN ParseUint(walName).err
             ELSE "ok"

\* the recovery is handed one entry of the SST or of the WAL directory
NameInit ==
    /\ EngineInit
    /\ entryName \in [dir : {"sst", "wal"}, name : Names]
    /\ loadErr = "none"
    /\ SstStart(BlockSize)
    /\ RecStart(NewRecord(NilBytes, NilBytes), 0, 0)

LoadSSTEntry(readable) ==
    /\ entryName.dir = "sst"
    /\ loadErr = "none"
    /\ loadErr' = loadSSTEntry(entryName.name, readable)
    /\ UNCHANGED <<engineVars, diskVars, workerVars, callerVars, historyVars,
                   faultVars, entryName, sstVars, recVars, mt>>

LoadWALEntry ==
    /\ entryName.dir = "wal"
    /\ loadErr = "none"
    /\ loadErr' = loadWALEntry(entryName.name)
    /\ UNCHANGED <<engineVars, diskVars, workerVars, callerVars, historyVars,
                   faultVars, entryName, sstVars, recVars, mt>>

NameNext ==
    \/ \E readable \in BOOLEAN : LoadSSTEntry(readable)
    \/ LoadWALEntry

NameSpec == NameInit /\ [][NameNext]_vars

\* ------------------------------------------- the SST writer and reader at work
\* One file: writers opened on it Add a key-ascending stream and Flush; the
\* footer may be overwritten by a damage to the file; NewSSTReader is then
\* called on the file.  swLog records the entries added to the writer in use
\* (added), the length of added at each of its Flushes (flushed), the size
\* of the file when it was opened (base) and what the last call returned.
MaxFlushes == 2     \* Flush calls in one behaviour

SstInit ==
    /\ EngineInit
    /\ entryName = [dir |-> "none", name |-> <<>>]
    /\ loadErr = "none"
    /\ \E blockSize \in 0..MaxBlockSize : SstStart(blockSize)
    /\ RecStart(NewRecord(NilBytes, NilBytes), 0, 0)

SstAdd(key, value) ==
    /\ sr.err = "none"
    /\ ~swLog.damaged
    /\ swLog.adds < MaxEntries
    /\ swLog.added # <<>> => KeyLess(swLog.added[Len(swLog.added)].key, key)
    /\ sw' = WriterAdd(sw, key, value)
    /\ swLog' = [swLog EXCEPT !.added = Append(@, [key |-> key, value |-> value]),
                              !.adds = @ + 1,
                              !.ret = "ok"]
    /\ UNCHANGED <<engineVars, diskVars, workerVars, callerVars, historyVars,
                   faultVars, nameVars, swFile, sr, recVars, mt>>

SstFlush ==
    /\ sr.err = "none"
    /\ ~swLog.damaged
    /\ swLog.flushes < MaxFlushes
    /\ sw' = WriterFlush(sw).s
    /\ swFile' = swFile \o WriterFlush(sw).parts
    /\ swLog' = [swLog EXCEPT !.flushed = Append(@, Len(swLog.added)),
                              !.flushes = @ + 1,
                              !.ret = "ok"]
    /\ UNCHANGED <<engineVars, diskVars, workerVars, callerVars, historyVars,
                   faultVars, nameVars, sr, recVars, mt>>

\* NewSSTWriter on the path again: O_APPEND without O_TRUNC keeps the file
SstNewWriter ==
    /\ sr.err = "none"
    /\ ~swLog.damaged
    /\ swLog.flushed # <<>>
    /\ swLog.flushes < MaxFlushes
    /\ sw' = SSTWriter(sw.blockSize)
    /\ swLog' = [swLog EXCEPT !.added = <<>>, !.flushed = <<>>, !.rolled = <<>>,
                              !.base = FileLen(swFile), !.ret = "ok"]
    /\ UNCHANGED <<engineVars, diskVars, workerVars, callerVars, historyVars,
                   faultVars, nameVars, swFile, sr, recVars, mt>>

\* the three lengths of the footer are overwritten on disk
SstDamageFooter(lens) ==
    /\ sr.err = "none"
    /\ ~swLog.damaged
    /\ swFile # <<>>
    /\ lens # swFile[Len(swFile)].body
    /\ swFile' = [swFile EXCEPT ![Len(swFile)].body = lens]
    /\ swLog' = [swLog EXCEPT !.damaged = TRUE]
    /\ UNCHANGED <<engineVars, diskVars, workerVars, callerVars, historyVars,
                   faultVars, nameVars, sw, sr, recVars, mt>>

SstOpen ==
    /\ sr.err = "none"
    /\ sr' = SSTReaderOpen(swFile)
    /\ UNCHANGED <<engineVars, diskVars, workerVars, callerVars, historyVars,
                   faultVars, nameVars, sw, swFile, swLog, recVars, mt>>

SstNext ==
    \/ \E key \in SstKeys, value \in SstVals : SstAdd(key, value)
    \/ SstFlush
    \/ SstNewWriter
    \/ \E d, i, f \in {Wide(0), Wide(1), [hi |-> 65535, lo |-> 65535]} :
          SstDamageFooter(<<d, i, f>>)
    \/ SstOpen

SstSpec == SstInit /\ [][SstNext]_vars

\* ------------------------------------------------- the writer rolled by hand
\* A writer that is fed with Add and whose block is rolled by calls of
\* mustRotateDataBlock between the Adds, without a Flush.  swLog.rolled
\* holds, for every such call, the number of pairs added before it.
MaxRolls == 2       \* calls of mustRotateDataBlock in one behaviour

SstRoll ==
    /\ Len(swLog.rolled) < MaxRolls
    /\ sw' = mustRotateDataBlock(sw)
    /\ swLog' = [swLog EXCEPT !.rolled = Append(@, Len(swLog.added)), !.ret = "ok"]
    /\ UNCHANGED <<engineVars, diskVars, workerVars, callerVars, historyVars,
                   faultVars, nameVars, swFile, sr, recVars, mt>>

RollNext ==
    \/ \E key \in SstKeys, value \in SstVals : SstAdd(key, value)
    \/ SstRoll

RollSpec == SstInit /\ [][RollNext]_vars

\* ------------------------------------------------- the WAL record codec at work
\* NewRecord makes a record of a key and a value, Encode gives its bytes, one
\* bit of its key or value bytes may be flipped, and one of the decoders is
\* called on the bytes.
RecInit ==
    /\ EngineInit
    /\ entryName = [dir |-> "none", name |-> <<>>]
    /\ loadErr = "none"
    /\ SstStart(BlockSize)
    /\ \E key \in {NilBytes, Bytes(<<>>)} \cup Keys,
          value \in {NilBytes, Bytes(<<>>)} \cup PutVals,
          longKey \in {0, MaxKeyLength, MaxKeyLength + 1},
          longValue \in {0, MaxValueLength, MaxValueLength + 1} :
          /\ longKey > 0 => ~key.nil
          /\ longValue > 0 => ~value.nil
          /\ RecStart(NewRecord(key, value),
                      IF longKey = 0 THEN 0 ELSE longKey - BLen(key),
                      IF longValue = 0 THEN 0 ELSE longValue - BLen(value))

RecEncode ==
    /\ recData.b = <<>>
    /\ recData' = [b |-> Encode(rec.r, rec.keyFill, rec.valueFill).b,
                    keyFill |-> rec.keyFill, valueFill |-> rec.valueFill,
                    flipped |-> FALSE]
    /\ UNCHANGED <<engineVars, diskVars, workerVars, callerVars, historyVars,
                   faultVars, nameVars, sstVars, rec, recOut, mt>>

\* bit number bit of the i-th enumerated key or value byte is inverted
RecFlip(i, bit) ==
    LET at == 9 + i
        old == recData.b[at]
        new == IF (old \div (2 ^ bit)) % 2 = 1 THEN old - 2 ^ bit ELSE old + 2 ^ bit
    IN  /\ recData.b # <<>>
        /\ ~recData.flipped
        /\ recOut.by = "none"
        /\ i \in 1..(BLen(rec.r.key) + BLen(rec.r.value))
        /\ recData' = [recData EXCEPT !.b[at] = new, !.flipped = TRUE]
        /\ UNCHANGED <<engineVars, diskVars, workerVars, callerVars, historyVars,
                       faultVars, nameVars, sstVars, rec, recOut, mt>>

RecDecode(by) ==
    /\ recData.b # <<>>
    /\ recOut.by = "none"
    /\ recOut' = IF by = "DecodeRecord" THEN DecodeRecord(recData)
                 ELSE DecodeStream(recData)
    /\ UNCHANGED <<engineVars, diskVars, workerVars, callerVars, historyVars,
                   faultVars, nameVars, sstVars, rec, recData, mt>>

RecNext ==
    \/ RecEncode
    \/ \E i \in 1..2, bit \in 0..7 : RecFlip(i, bit)
    \/ \E by \in {"DecodeRecord", "DecodeStream"} : RecDecode(by)

RecSpec == RecInit /\ [][RecNext]_vars

\* ------------------------------------------------------- the memtable by itself
\* Put, Get, Delete, ForEach and ForEachUnSafe called on one BTreeMemTable,
\* with nil, empty and one-byte keys and values.
MaxMemOps == 4     \* calls made on the memtable in one behaviour

MemPutCall(key, value) ==
    /\ mt.calls < MaxMemOps
    /\ mt' = [mt EXCEPT !.calls = @ + 1, !.op = "Put", !.key = key, !.value = value,
                        !.out = NilBytes, !.stop = 0, !.visited = <<>>,
                        !.err = IF key.nil THEN "key-nil" ELSE "ok",
                        !.tree = IF key.nil THEN @ ELSE MemPut(@, CopyBytes(key), value)]
    /\ UNCHANGED <<engineVars, diskVars, workerVars, callerVars, historyVars,
                   faultVars, nameVars, sstVars, recVars>>

MemGetCall(key) ==
    /\ mt.calls < MaxMemOps
    /\ mt' = [mt EXCEPT !.calls = @ + 1, !.op = "Get", !.key = key, !.value = NilBytes,
                        !.stop = 0, !.visited = <<>>,
                        !.err = IF key.nil THEN "key-nil"
                                ELSE MemGet(mt.tree, CopyBytes(key)).err,
                        !.out = IF key.nil THEN NilBytes
                                ELSE MemGet(mt.tree, CopyBytes(key)).value]
    /\ UNCHANGED <<engineVars, diskVars, workerVars, callerVars, historyVars,
                   faultVars, nameVars, sstVars, recVars>>

MemDeleteCall(key) ==
    /\ mt.calls < MaxMemOps
    /\ mt' = [mt EXCEPT !.calls = @ + 1, !.op = "Delete", !.key = key,
                        !.value = NilBytes, !.out = NilBytes, !.stop = 0,
                        !.visited = <<>>,
                        !.err = IF key.nil THEN "key-nil"
                                ELSE IF CopyBytes(key) \notin DOMAIN mt.tree
                                     THEN "key-not-found" ELSE "ok",
                        !.tree = IF key.nil \/ CopyBytes(key) \notin DOMAIN @ THEN @
                                 ELSE MemDelete(@, CopyBytes(key))]
    /\ UNCHANGED <<engineVars, diskVars, workerVars, callerVars, historyVars,
                   faultVars, nameVars, sstVars, recVars>>

\* ForEach hands copies to the visitor, ForEachUnSafe the slices of the items
MemVisit(by, stopAfter) ==
    LET items == ForEachUnSafe(mt.tree)
        copies == [i \in 1..Len(items) |-> [key |-> CopyBytes(items[i].key),
                                            value |-> CopyBytes(items[i].value)]]
    IN  /\ mt.calls < MaxMemOps
        /\ mt' = [mt EXCEPT !.calls = @ + 1, !.op = by, !.key = NilBytes,
                            !.value = NilBytes, !.out = NilBytes, !.err = "ok",
                            !.stop = stopAfter,
                            !.visited = Ascend(IF by = "ForEach" THEN copies ELSE items,
                                               stopAfter)]
        /\ UNCHANGED <<engineVars, diskVars, workerVars, callerVars, historyVars,
                       faultVars, nameVars, sstVars, recVars>>

MemNext ==
    \/ \E key \in {NilBytes, Bytes(<<>>)} \cup Keys,
          value \in {NilBytes, Bytes(<<>>)} \cup PutVals : MemPutCall(key, value)
    \/ \E key \in {NilBytes, Bytes(<<>>)} \cup Keys : MemGetCall(key)
    \/ \E key \in {NilBytes, Bytes(<<>>)} \cup Keys : MemDeleteCall(key)
    \/ \E by \in {"ForEach", "ForEachUnSafe"}, stopAfter \in 1..(MaxKey + 2) :
          MemVisit(by, stopAfter)

MemSpec == Init /\ [][MemNext]_vars

TypeOK ==
    /\ phase \in {"open", "closed"}
    /\ ppc \in {"idle", "seal", "swap"}
    /\ wpc \in {"idle", "stopped"} \cup {CompactOrder[i] : i \in 1..Len(CompactOrder)}
    /\ ops \in 0..MaxOps
    /\ opens \in 0..MaxOpens

\* ====================================================================== claims
\* no Put/Delete of the key is in flight
Settled(k) == ppc = "idle" \/ pending[1] # k

\* the value of the last Put of k that returned, when no Delete followed it
LastPut(k) == IF latest[k] # <<>> /\ ~latest[k][1].nil THEN {latest[k][1]} ELSE {}

Ok(v) == [value |-> v, err |-> "ok"]

\* C1 (durability across re-open): right after Close and a re-open, no
\* Put/Delete called since, the open has succeeded and Get(k) returns v for
\* every key k whose last returned write is Put(k, v).
C1_DurableAfterReopen ==
    (opens > 0 /\ fresh) =>
        \A k \in Keys : \A v \in LastPut(k) :
            openErr = "ok" /\ GetResult(k) = Ok(v)

\* a source that Get scans holds the entry (k, v)
HeldBySomeSource(k, v) ==
    \/ k \in DOMAIN mutableIndex /\ mutableIndex[k] = v
    \/ \E i \in 1..Len(immutableIndex) :
           /\ immutableIndex[i] # NilImm
           /\ k \in DOMAIN immutableIndex[i].index
           /\ immutableIndex[i].index[k] = v
    \/ \E l \in Levels : \E i \in 1..Len(nodes[l]) :
           \E j \in 1..Len(nodes[l][i].kvList) :
               nodes[l][i].kvList[j] = [key |-> k, value |-> v]

\* C2 (newest wins): while the tree is open and the value v of the last
\* Put(k, v) that returned sits in a source that Get scans, Get(k) never
\* answers another, older put value.
C2_NewestWins ==
    \A k \in Keys : \A v \in LastPut(k) :
        (phase = "open" /\ Settled(k) /\ HeldBySomeSource(k, v)) =>
            ~(GetResult(k).err = "ok" /\ GetResult(k).value \in PutVals \ {v})

\* C3 (tombstone visibility): for a key that was Put and whose last returned
\* write is a Delete, Get answers value-nil or key-not-found, never success.
C3_TombstoneVisible ==
    \A k \in wasPut :
        (phase = "open" /\ Settled(k) /\ latest[k] = <<NilBytes>>) =>
            GetResult(k).err \in {"value-nil", "key-not-found"}

\* the sources that Get scans hold an entry for k
InSomeSource(k) ==
    \/ k \in DOMAIN mutableIndex
    \/ \E i \in 1..Len(immutableIndex) :
           immutableIndex[i] # NilImm /\ k \in DOMAIN immutableIndex[i].index
    \/ \E l \in Levels : \E i \in 1..Len(nodes[l]) :
           \E j \in 1..Len(nodes[l][i].kvList) : nodes[l][i].kvList[j].key = k

\* C4 (visibility under concurrent compaction): in every state of an open
\* tree, between any two steps of doCompact and rotateWal, a key whose Put
\* has returned is held by a source that Get scans and Get does not answer
\* key-not-found for it.
C4_VisibleDuringCompaction ==
    \A k \in Keys :
        (phase = "open" /\ LastPut(k) # {}) =>
            /\ InSomeSource(k)
            /\ GetResult(k).err # "key-not-found"

\* the immutable made from WAL id by org is in the sealed list
Sealed(org, id) ==
    \E i \in 1..Len(immutableIndex) :
        immutableIndex[i].org = org /\ immutableIndex[i].wal = id

\* C5 (eventual compaction): with the worker scheduled fairly, every
\* immutable that is in the sealed list, put there by rotation or by
\* recovery, is eventually removed from it by its compaction, unless the
\* engine is closed.
C5_EventuallyCompacted ==
    \A org \in {"rec", "rot"} : \A id \in 0..(MaxOps + MaxOpens) :
        (phase = "open" /\ Sealed(org, id)) ~> (~Sealed(org, id) \/ phase = "closed")

\* C6 (WAL id chosen at open): right after a re-open that recovered WAL
\* files, the current WAL id is the largest recovered id plus one, and the
\* current WAL file is not the file of a recovered immutable.
C6_FreshWalId ==
    (opens > 0 /\ fresh /\ phase = "open") =>
        /\ walId = IF immutableIndex = <<>> THEN 0
                   ELSE immutableIndex[Len(immutableIndex)].wal + 1
        /\ \A i \in 1..Len(immutableIndex) : immutableIndex[i].wal # curWal

\* the file written by the compaction in progress holds, as its last
\* segment, every entry of the immutable
SstWritten ==
    /\ getSSTFilePath(0, wSeq) \in DOMAIN sstDir
    /\ LET file == sstDir[getSSTFilePath(0, wSeq)]
       IN  file # <<>> /\ file[Len(file)] = Segment(ForEachUnSafe(wImm.index), SectionCount)

Compacting == wpc \notin {"idle", "stopped"}

\* C7 (compaction step order): a step of doCompact that deletes a WAL file
\* finds the SST file completely written, and a step of doCompact that
\* removes the immutable from the sealed list finds its WAL file deleted.
C7_StepOrder ==
    [][/\ (Compacting /\ DOMAIN walDir \ DOMAIN walDir' # {}) => SstWritten
       /\ (Compacting /\ Len(immutableIndex') < Len(immutableIndex)) =>
              (SstWritten /\ wImm.wal \notin DOMAIN walDir)]_vars

\* a compaction has written its SST, deleted the WAL and removed the immutable
C7_Witness ==
    /\ wpc = "install"
    /\ SstWritten
    /\ wImm.wal \notin DOMAIN walDir
    /\ Find(immutableIndex, wImm) = 0

\* the worker is between the deletion of a WAL file and the removal of its
\* immutable from the sealed list
InDeleteWindow == Compacting /\ wImm.wal \notin DOMAIN walDir

\* C8 (WAL-file invariant): outside the window in which doCompact has
\* deleted a WAL file and not yet removed its immutable, every immutable in
\* the sealed list has its WAL file on disk and the file of the current
\* WAL is on disk.
C8_WalFilesPresent ==
    (phase = "open" /\ ~InDeleteWindow) =>
        /\ \A i \in 1..Len(immutableIndex) :
               immutableIndex[i] # NilImm => immutableIndex[i].wal \in DOMAIN walDir
        /\ (ppc # "swap" => curWal \in DOMAIN walDir)

NodePaths ==
    UNION {{<<nodes[l][i].level, nodes[l][i].seq>> : i \in 1..Len(nodes[l])} : l \in Levels}

\* C9 (SST file/node bijection): whenever no compaction is in progress,
\* also after one has failed, the nodes in levels and the files of the SST
\* directory correspond one to one.
C9_FileNodeBijection ==
    (phase = "open" /\ ~Compacting) =>
        /\ NodePaths = DOMAIN sstDir
        /\ \A l \in Levels : \A i, j \in 1..Len(nodes[l]) :
               (nodes[l][i].level = l) /\ (i # j => nodes[l][i].seq # nodes[l][j].seq)

C11_CompactionAbort ==
    [][(wpc = "write" /\ wpc' = "idle") =>
          /\ wImm.wal \in DOMAIN walDir'
          /\ Find(immutableIndex', wImm) # 0
          /\ nodes' = nodes
          /\ LET path == getSSTFilePath(0, wSeq)
             IN  path \in DOMAIN sstDir' =>
                     (path \in DOMAIN sstDir /\ sstDir'[path] = sstDir[path])]_vars

\* C12 (no partial SST installed): every node that a compaction appends to
\* level 0 holds exactly the entries of the sealed memtable that the
\* compaction was given, in key order.
C12_NoPartialNode ==
    [][(Compacting /\ Len(nodes'[0]) > Len(nodes[0])) =>
          nodes'[0][Len(nodes'[0])].kvList = KvListOf(ForEachUnSafe(wImm.index))]_vars

\* a write of an SST has failed and left a file without a node, and a later
\* compaction has installed its node
C12_Witness ==
    /\ faults > 0
    /\ \E p \in DOMAIN sstDir :
           /\ p \notin NodePaths
           /\ sstDir[p] = <<>> \/ sstDir[p][Len(sstDir[p])].sections < SectionCount
           /\ \E i \in 1..Len(nodes[0]) : nodes[0][i].seq > p[2]
    /\ wpc = "idle"

\* the immutables that a sealed list holds
SealedSet(imms) == {imms[i] : i \in 1..Len(imms)} \ {NilImm}

\* C13 (sealed-list updates are serialized): an immutable leaves the sealed
\* list only by a step of its own compaction (or when the list is rebuilt
\* by a re-open); no step drops an immutable that another one appended.
C13_SealedSerialized ==
    [][\A imm \in SealedSet(immutableIndex) \ SealedSet(immutableIndex') :
          opens' # opens \/ (Compacting /\ imm = wImm)]_vars

\* C14 (readers never see a partially updated sealed list): a Get issued in
\* any state of an open tree dereferences no nil element of the sealed list.
C14_GetNeverPanics ==
    phase = "open" => \A k \in Keys : GetResult(k).err # "panic"

\* C15 (WAL-append failure leaves the state unchanged): a Put/Delete that
\* returns the error of the WAL append leaves the mutable memtable, the
\* sealed list, the WAL id, the current WAL and the levels as they were and
\* does not enter rotateWal.
C15_WalFailureNoChange ==
    [][(ops' = ops + 1 /\ faults' = faults + 1 /\ ret' = "io-error") =>
          /\ UNCHANGED <<mutableIndex, immutableIndex, walId, curWal, nodes>>
          /\ ppc' = "idle"]_vars

\* a Put/Delete has returned the I/O error of the WAL append while the
\* current WAL already held records, so that the call would have rotated
C15_Witness ==
    /\ ret = "io-error"
    /\ phase = "open"
    /\ mutableIndex # <<>>
    /\ WalFileSize(walDir, curWal) >= WalSize

\* C16 (nil-key rejection): a Put/Delete that returns key-nil has appended
\* no record to the WAL.
C16_NilKeyNoRecord ==
    [][(ops' = ops + 1 /\ faults' = faults + 1 /\ ret' = "key-nil") =>
          walDir' = walDir]_vars

\* C17 (Close runs every step): after a Close, also one in which a
\* Wal.Close failed, no WAL handle is left that Close did not try to close.
C17_CloseRunsEveryStep ==
    phase = "closed" => skipped = {}

\* C18 (worker shutdown): the worker exits only from the select between two
\* compactions, and once the stop channel is closed it eventually exits.
C18_WorkerShutdown ==
    /\ [][(wpc' = "stopped" /\ wpc # "stopped") => wpc = "idle"]_vars
    /\ (stopCh ~> (wpc = "stopped"))

\* Close has closed the stop channel while a doCompact is in progress
C18_Witness ==
    /\ stopCh
    /\ phase = "closed"
    /\ wpc = "install"

\* C19 (recovery rebuilds exactly what is on disk): a NewLsmTree that
\* succeeds leaves one node per file of the SST directory, at the level and
\* with the seq of the file name, and one immutable per file of the WAL
\* directory as it was found.
C19_RecoveryExact ==
    [][(opens' = opens + 1 /\ openErr' = "ok") =>
          /\ NodePaths' = DOMAIN sstDir
          /\ \A l \in Levels : \A i, j \in 1..Len(nodes'[l]) :
                 /\ nodes'[l][i].level = l
                 /\ i # j => nodes'[l][i].seq # nodes'[l][j].seq
          /\ {immutableIndex'[i].wal : i \in 1..Len(immutableIndex')} = DOMAIN walDir
          /\ Len(immutableIndex') = Cardinality(DOMAIN walDir)]_vars

\* a re-open has just recovered an SST file and two WAL files
C19_Witness ==
    /\ opens > 0
    /\ fresh
    /\ phase = "open"
    /\ openErr = "ok"
    /\ Len(nodes[0]) >= 1
    /\ Len(immutableIndex) >= 2

\* the name is <level>_<seq>.sst with a decimal non-negative level and a
\* decimal seq
SSTNameOk(name) ==
    \E i \in 1..Len(name) :
        /\ name[i] = "_"
        /\ IsDigits(SubSeq(name, 1, i - 1))
        /\ IsDigits(SubSeq(name, i + 1, Len(name) - 1))
        /\ name[Len(name)] = ".sst"

\* the name is wal-<id>.log with a decimal id
WALNameOk(name) ==
    /\ Len(name) >= 3
    /\ name[1] = "wal-"
    /\ name[Len(name)] = ".log"
    /\ IsDigits(SubSeq(name, 2, Len(name) - 1))

\* C20 (strict filename grammar at recovery): for an SST-directory entry
\* whose name is not <level>_<seq>.sst the recovery answers sst-corrupted,
\* and for a WAL-directory entry whose name is not wal-<id>.log it answers
\* wal-corrupted; it answers no other error and does not panic.
C20_StrictNames ==
    loadErr # "none" =>
        /\ (entryName.dir = "sst" /\ ~SSTNameOk(entryName.name)) =>
               loadErr = "sst-corrupted"
        /\ (entryName.dir = "wal" /\ ~WALNameOk(entryName.name)) =>
               loadErr = "wal-corrupted"

\* ------------------------------------------------------- SST writer and reader
\* one writer was opened on a new path, a stream was handed to Add and Flush
\* was called once after it; the file was not touched otherwise
WrittenOnce ==
    /\ swLog.base = 0
    /\ swLog.flushed = <<Len(swLog.added)>>
    /\ ~swLog.damaged

\* C21: a key-ascending stream, values possibly empty, that was handed to
\* Add and flushed (BlockSize 1 or more) is opened by the reader without
\* error, and the iterator of the reader yields exactly the pairs of the
\* stream, in order, without error.
C21_IterationRoundTrip ==
    WrittenOnce /\ sw.blockSize >= 1 /\ sr.err # "none" =>
        /\ sr.err = "ok"
        /\ Iterate(sr).err = "ok"
        /\ Iterate(sr).items = KvListOf(swLog.added)

\* C22: on an SST written from a key-ascending stream of distinct keys and
\* opened by the reader, Get returns the value written for every key of the
\* stream and key-not-found for every other key.
C22_PointLookup ==
    WrittenOnce /\ sr.err = "ok" =>
        \A key \in SstKeys :
            LET at == {i \in 1..Len(swLog.added) : swLog.added[i].key.b = key.b}
                got == ReaderGetFrom(sr, 1, key)
            IN  IF at = {} THEN got.err = "key-not-found"
                ELSE /\ got.err = "ok"
                     /\ \A i \in at : got.value.b = swLog.added[i].value.b

\* C23: after a writer's Flush has returned without error, the three lengths
\* of the footer it wrote and the 12 bytes of the footer add up to the size
\* of the file.
C23_FooterSum ==
    Len(swLog.flushed) = 1 /\ ~swLog.damaged =>
        LET lens == swFile[Len(swFile)].body
        IN  /\ lens[1].hi = 0 /\ lens[2].hi = 0 /\ lens[3].hi = 0
            /\ lens[1].lo + lens[2].lo + lens[3].lo + FooterLen = FileLen(swFile)

\* the file holds 12 bytes or more, and the three lengths of its footer plus
\* 12, added as integers, are its size
FooterAddsUp ==
    /\ FileLen(swFile) >= FooterLen
    /\ LET lens == swFile[Len(swFile)].body
       IN  WideAdd(WideAdd(WideAdd(lens[1], lens[2]), lens[3]), Wide(FooterLen))
               = Wide(FileLen(swFile))

\* C24: NewSSTReader answers invalid-sst-format for every file that is
\* shorter than 12 bytes or whose footer lengths plus 12, taken as integers,
\* differ from the file size.
C24_OpenValidation ==
    sr.err # "none" /\ ~FooterAddsUp => sr.err = "invalid-sst-format"

\* C25: with a BlockSize of 1 or more, every data block that the writer has
\* rolled holds at most BlockSize entries, and every one but the last holds
\* exactly BlockSize entries.
C25_BlockRollThreshold ==
    sw.blockSize >= 1 => \A i \in 1..Len(sw.filterBlock) :
        /\ Cardinality(sw.filterBlock[i].filter) <= sw.blockSize
        /\ i < Len(sw.filterBlock) =>
               Cardinality(sw.filterBlock[i].filter) = sw.blockSize

\* the stream cut into blocks of the given numbers of entries
RECURSIVE CutBlocks(_, _)
CutBlocks(es, counts) ==
    IF counts = <<>> THEN <<>>
    ELSE <<SubSeq(es, 1, Head(counts))>>
         \o CutBlocks(SubSeq(es, Head(counts) + 1, Len(es)), Tail(counts))

\* the blocks of the written file: its filter section holds one entry per
\* block, made of the keys of the block
WrittenBlocks ==
    CutBlocks(swLog.added,
              [i \in 1..Len(swFile[3].body) |-> Cardinality(swFile[3].body[i].filter)])

\* the bytes of the blocks before the i-th
RECURSIVE BlockStart(_, _)
BlockStart(blocks, i) ==
    IF i = 1 THEN 0 ELSE BlockStart(blocks, i - 1) + DataLen(blocks[i - 1])

\* C26: in an SST written with a BlockSize of 1 or more the i-th index entry
\* has the byte length of block i as its length, the sum of the byte lengths
\* of the blocks before it as its offset, and the first and the last key of
\* block i as start and end key.
C26_IndexTilesData ==
    WrittenOnce /\ sw.blockSize >= 1 =>
        /\ Len(swFile[2].body) = Len(WrittenBlocks)
        /\ \A i \in 1..Len(WrittenBlocks) :
              LET idx == swFile[2].body[i]
                  block == WrittenBlocks[i]
              IN  /\ idx.Length = DataLen(block)
                  /\ idx.Offset = BlockStart(WrittenBlocks, i)
                  /\ idx.StartKey.b = block[1].key.b
                  /\ idx.EndKey.b = block[Len(block)].key.b

\* C27: for every key written into a block of an SST (BlockSize 1 or more),
\* the filter that the reader keeps for the block, which is the entry of its
\* filter map at the length of the block's index entry, contains the key; two
\* blocks may have the same byte length.
C27_FilterNoFalseNegative ==
    WrittenOnce /\ sw.blockSize >= 1 /\ sr.err = "ok" =>
        \A i \in 1..Len(WrittenBlocks) :
            \A j \in 1..Len(WrittenBlocks[i]) :
                LET length == swFile[2].body[i].Length
                IN  /\ length \in DOMAIN sr.filterMap
                    /\ Contains(sr.filterMap[length], WrittenBlocks[i][j].key)

\* C28: an Add that is called on a writer after its Flush is rejected with
\* an error.
C28_NoAddAfterFlush ==
    [][(swLog.flushed # <<>> /\ swLog'.adds = swLog.adds + 1) => swLog'.ret # "ok"]_vars

\* ------------------------------------------------------------------ WAL record
\* the key and the value of the record are within the caps of DecodeRecord
WithinCaps ==
    /\ BLen(rec.r.key) + rec.keyFill <= MaxKeyLength
    /\ BLen(rec.r.value) + rec.valueFill <= MaxValueLength

\* C29: for every record of type Put or Delete with a key of up to 10 MiB and
\* a value of up to 100 MiB, DecodeRecord of the bytes of Encode succeeds and
\* returns the type, the key bytes and the value bytes of the record.
C29_RecordRoundTrip ==
    WithinCaps /\ ~recData.flipped /\ recOut.by = "DecodeRecord" =>
        /\ recOut.err = "ok"
        /\ recOut.type = rec.r.type
        /\ recOut.key.b = rec.r.key.b /\ recOut.keyFill = rec.keyFill
        /\ recOut.value.b = rec.r.value.b /\ recOut.valueFill = rec.valueFill

\* a Put record whose key is 10 MiB and whose value is 100 MiB long has been
\* encoded and decoded by DecodeRecord
C29_Witness ==
    /\ BLen(rec.r.key) + rec.keyFill = MaxKeyLength
    /\ BLen(rec.r.value) + rec.valueFill = MaxValueLength
    /\ rec.r.type = "Put"
    /\ ~recData.flipped
    /\ recOut.by = "DecodeRecord"
    /\ recOut.err = "ok"

\* C30: after one bit of a key or value byte of an encoded record (key and
\* value within the caps) has been inverted, decoding the record, by
\* DecodeRecord or by DecodeStream, fails with crc-mismatch and the record is
\* not handed to the callback.
C30_CrcDetection ==
    WithinCaps /\ recData.flipped /\ recOut.by # "none" =>
        /\ recOut.err = "crc-mismatch"
        /\ recOut.applied = 0

\* -------------------------------------------------------------------- memtable
\* C31: on a memtable, after Put(k, v) Get(k) returns v; after Delete(k) of a
\* key that is present Get(k) returns key-not-found; Delete of a key that is
\* absent returns key-not-found and leaves the tree as it was; Put, Get and
\* Delete with a nil key return key-nil and leave the tree as it was.
C31_PointOperations ==
    [][mt'.calls = mt.calls + 1 =>
        LET k == CopyBytes(mt'.key)
        IN  /\ (mt'.op = "Put" /\ ~mt'.key.nil) =>
                   /\ mt'.err = "ok"
                   /\ MemGet(mt'.tree, k).err = "ok"
                   /\ MemGet(mt'.tree, k).value.b = mt'.value.b
            /\ (mt'.op = "Get" /\ ~mt'.key.nil) =>
                   /\ mt'.tree = mt.tree
                   /\ IF k \in DOMAIN mt.tree
                      THEN mt'.err = "ok" /\ mt'.out.b = mt.tree[k].b
                      ELSE mt'.err = "key-not-found"
            /\ (mt'.op = "Delete" /\ ~mt'.key.nil /\ k \in DOMAIN mt.tree) =>
                   /\ mt'.err = "ok"
                   /\ MemGet(mt'.tree, k).err = "key-not-found"
                   /\ \A o \in DOMAIN mt.tree : o # k =>
                          MemGet(mt'.tree, o) = MemGet(mt.tree, o)
            /\ (mt'.op = "Delete" /\ ~mt'.key.nil /\ k \notin DOMAIN mt.tree) =>
                   mt'.err = "key-not-found" /\ mt'.tree = mt.tree
            /\ (mt'.op \in {"Put", "Get", "Delete"} /\ mt'.key.nil) =>
                   mt'.err = "key-nil" /\ mt'.tree = mt.tree]_vars

\* a key that is present has been deleted, in the third call or later, and
\* another entry is still in the tree
C31_Witness ==
    /\ mt.op = "Delete"
    /\ mt.err = "ok"
    /\ mt.calls >= 3
    /\ mt.tree # NewMemTable

\* C32: ForEach and ForEachUnSafe hand every entry of the memtable to the
\* visitor exactly once, in strictly ascending key order, and make no further
\* call once the visitor has returned false.
C32_OrderedTraversal ==
    mt.op \in {"ForEach", "ForEachUnSafe"} =>
        LET v == mt.visited
            n == Cardinality(DOMAIN mt.tree)
            seen == {v[i].key : i \in 1..Len(v)}
        IN  /\ Len(v) = IF mt.stop < n THEN mt.stop ELSE n
            /\ \A i, j \in 1..Len(v) : i < j => KeyLess(v[i].key, v[j].key)
            /\ \A i \in 1..Len(v) :
                  v[i].key \in DOMAIN mt.tree /\ v[i].value.b = mt.tree[v[i].key].b
            /\ \A k \in (DOMAIN mt.tree) \ seen : \A o \in seen : KeyLess(o, k)

\* a traversal of a memtable of three entries was stopped by the visitor in
\* its second call
C32_Witness ==
    /\ mt.op \in {"ForEach", "ForEachUnSafe"}
    /\ Cardinality(DOMAIN mt.tree) = 3
    /\ mt.stop = 2
    /\ Len(mt.visited) = 2

\* -------------------------------------------------------------------- rotation
\* C33: a Put or Delete enters rotateWal exactly when the size of the current
\* WAL after the append is greater than WalSize; the rotation appends the
\* pair of the current WAL and memtable as the last element of the sealed
\* list, adds 1 to the WAL id, installs a WAL of that id and an empty
\* memtable, and changes neither the levels nor the earlier sealed entries.
C33_RotationStep ==
    [][/\ ops' = ops + 1 =>
              ((ppc' = "seal") <=> (WalFileSize(walDir', curWal) > WalSize))
       /\ (ppc = "seal" /\ ppc' = "swap") =>
              /\ immutableIndex' =
                     Append(immutableIndex, Immutable("rot", curWal, mutableIndex))
              /\ nodes' = nodes
              /\ walId' = walId
       /\ (ppc = "swap" /\ ppc' = "idle") =>
              /\ walId' = walId + 1
              /\ curWal' = walId'
              /\ walId' \in DOMAIN walDir'
              /\ mutableIndex' = NewMemTable
              /\ immutableIndex' = immutableIndex
              /\ nodes' = nodes]_vars

\* two rotations have been made and both immutables are in the sealed list
C33_Witness ==
    /\ ppc = "idle"
    /\ walId >= 2
    /\ Len(immutableIndex) >= 2
    /\ mutableIndex = NewMemTable

\* C34: when doCompact writes an immutable into an SST, no immutable that
\* was sealed or recovered before it, and so stands before it in the sealed
\* list, is still in the list: an immutable of the sealed list is never older
\* than the content of an SST.
C34_AgeOrder ==
    [][(wpc = "write" /\ wpc' # "write") =>
          \A i \in 1..Len(immutableIndex) :
              i < Find(immutableIndex, wImm) => immutableIndex[i] = NilImm]_vars

\* C35: the file that doCompact writes is not in the SST directory before,
\* or is emptied by the writer: after the write it holds the entries of the
\* compacted memtable and nothing else, and no file that was in the directory
\* before has changed.
C35_NoWriteIntoExisting ==
    [][(wpc = "write" /\ wpc' # "write") =>
          /\ \A path \in DOMAIN sstDir : sstDir'[path] = sstDir[path]
          /\ Len(sstDir'[getSSTFilePath(0, wSeq)]) = 1]_vars

\* C36: after the process has stopped at any point of a compaction, the next
\* NewLsmTree succeeds and Get(k) returns v for every key k whose last
\* returned write is Put(k, v).
C36_CrashSafeCompaction ==
    (ret = "crash" /\ opens > 0 /\ fresh) =>
        /\ openErr = "ok"
        /\ \A k \in Keys : \A v \in LastPut(k) : GetResult(k) = Ok(v)

\* C37: when opening the new WAL fails in a rotation, Put / Delete returns
\* the error, and the current memtable and WAL are not the pair of an
\* immutable that is in the sealed list or in the channel of the worker.
C37_FailedRotation ==
    [][(ppc = "swap" /\ ppc' = "idle" /\ faults' = faults + 1) =>
          /\ ret' = "io-error"
          /\ \A i \in 1..Len(immutableIndex') :
                 immutableIndex'[i] # Immutable("rot", curWal', mutableIndex')
          /\ \A i \in 1..Len(compactCh') :
                 compactCh'[i] # Immutable("rot", curWal', mutableIndex')]_vars

\* C38: DecodeStream on the bytes of one encoded record (key and value
\* within the caps, no byte changed) returns nil, does not panic, and has
\* called the callback once, with the key and the value of the record.
C38_StreamReplay ==
    WithinCaps /\ ~recData.flipped /\ recOut.by = "DecodeStream" =>
        /\ recOut.err = "ok"
        /\ recOut.applied = 1
        /\ recOut.key.b = rec.r.key.b
        /\ recOut.value.b = rec.r.value.b

\* -------------------------------------------------- the writer rolled by hand
\* the index entries that m Adds into an empty block and a forced roll after
\* them leave: m / (BlockSize + 1), rounded up
RollsOf(m) == (m + sw.blockSize) \div (sw.blockSize + 1)

\* the index entries left by forced rolls after the given numbers of Adds
RECURSIVE ForcedEntries(_, _)
ForcedEntries(from, cuts) ==
    IF cuts = <<>> THEN 0
    ELSE RollsOf(Head(cuts) - from) + ForcedEntries(Head(cuts), Tail(cuts))

\* the number of Adds before the last forced roll
LastForced == IF swLog.rolled = <<>> THEN 0 ELSE swLog.rolled[Len(swLog.rolled)]

RollPoints ==
    LET cuts == {0} \cup {swLog.rolled[i] : i \in DOMAIN swLog.rolled}
        Before(p) == CHOOSE c \in cuts : c < p /\ \A d \in cuts : d < p => d <= c
    IN  {p \in 1..Len(swLog.added) :
            p \in cuts \/ (p - Before(p)) % (sw.blockSize + 1) = 0}

\* the i-th block that was rolled ends behind this many Adds
RollPoint(i) ==
    IF i = 0 THEN 0
    ELSE CHOOSE p \in RollPoints : Cardinality({q \in RollPoints : q <= p}) = i

\* the keys of the Adds a + 1 .. b
KeysAdded(a, b) == {swLog.added[j].key.b : j \in (a + 1)..b}

====
